---- MODULE Spec2Model ----
(***************************************************************************)
(* Phase 10 rules engine: cards, the meld validator, the player state and  *)
(* the turn / round / game state machine (cards.py, phases.py, player.py,  *)
(* game.py and the turn loop of main.py).                                  *)
(*                                                                         *)
(* A card is a distinct instance (cards.py defines no __eq__, so two cards *)
(* are equal only when they are the same object).  Instances are numbered  *)
(* 1..108 in the order Deck._create_deck appends them.                     *)
(***************************************************************************)
EXTENDS Integers, Sequences, FiniteSets, TLC

VARIABLES
    nplayers,                     \* len(game.players)
    names,                        \* the list of names handed to Phase10Game, Player.name
    hand,                         \* Player.hand, per player index
    current_phase,                \* Player.current_phase
    completed_phase_this_round,   \* Player.completed_phase_this_round
    completed_phase_cards,        \* Player.completed_phase_cards
    score,                        \* Player.score
    deck,                         \* Deck.cards (top of the deck = last element)
    discard_pile,                 \* DiscardPile.cards (top = last element)
    current_player_index,         \* GameState.current_player_index
    round_number,                 \* GameState.round_number
    game_over,                    \* GameState.game_over
    winner,                       \* GameState.winner (a player index, or NoPlayer)
    round_winner,                 \* the value end_round returned (play_round's local)
    pc,                           \* where the game loop of main.py stands
    fn,                           \* the operation applied last
    selected_cards,               \* the card list handed to a validator
    arg,                          \* required_count / phase number handed to it
    ret,                          \* what the operation returned ("True", "False", ...)
    turns                         \* number of turns started (bounds the exploration)

vars == <<nplayers, names, hand, current_phase, completed_phase_this_round,
          completed_phase_cards, score, deck, discard_pile, current_player_index,
          round_number, game_over, winner, round_winner, pc, fn, selected_cards,
          arg, ret, turns>>

gameVars == <<nplayers, names, hand, current_phase, completed_phase_this_round,
              completed_phase_cards, score, deck, discard_pile,
              current_player_index, round_number, game_over, winner,
              round_winner>>

(***************************************************************************)
(* Bounds of the model.                                                    *)
(***************************************************************************)
MaxSel == 9          \* longest card list handed to a validator
MaxPlayers == 3      \* most players of a game (the code allows up to 6)
MaxTurns == 2        \* most turns started in one behaviour
MaxRounds == 2       \* most rounds started in one behaviour

(***************************************************************************)
(* cards.py                                                                *)
(***************************************************************************)
None == 0            \* Card.rank of a Wild or Skip card (Python None)
NoPlayer == -1       \* Python None where a Player is expected

Colors == <<"red", "blue", "green", "yellow">>

NumRanks == 12
CopiesPerNumber == 2
WildsPerColor == 2
SkipsPerColor == 1

NumNumberCards == NumRanks * Len(Colors) * CopiesPerNumber
NumWildCards == Len(Colors) * WildsPerColor
NumSkipCards == Len(Colors) * SkipsPerColor

Mutant_create_deck == [i \in 1..(NumNumberCards + NumWildCards + NumSkipCards - 1) |-> i]

\* Deck._create_deck: the list of card instances in the order it appends them
_create_deck == [i \in 1..(NumNumberCards + NumWildCards + NumSkipCards) |-> i]

card_type(c) ==
    IF c <= NumNumberCards THEN "number"
    ELSE IF c <= NumNumberCards + NumWildCards THEN "wild"
    ELSE "skip"

rank(c) ==
    IF card_type(c) = "number"
    THEN ((c - 1) \div (Len(Colors) * CopiesPerNumber)) + 1
    ELSE None

color(c) ==
    IF card_type(c) = "number"
    THEN Colors[(((c - 1) % (Len(Colors) * CopiesPerNumber)) \div CopiesPerNumber) + 1]
    ELSE IF card_type(c) = "wild"
    THEN Colors[((c - NumNumberCards - 1) \div WildsPerColor) + 1]
    ELSE Colors[((c - NumNumberCards - NumWildCards - 1) \div SkipsPerColor) + 1]

\* the instance Card(r, col) that is the k-th copy of its kind in the deck
NumberCard(r, col, k) ==
    CHOOSE c \in 1..NumNumberCards :
        /\ rank(c) = r
        /\ color(c) = col
        /\ ((c - 1) % CopiesPerNumber) + 1 = k

WildCard(k) == NumNumberCards + k
SkipCard(k) == NumNumberCards + NumWildCards + k

Mutant_get_points(c) ==
    IF card_type(c) = "wild" THEN 25
    ELSE IF card_type(c) = "skip" THEN 15
    ELSE 5

get_points(c) ==
    IF card_type(c) = "wild" THEN 25
    ELSE IF card_type(c) = "skip" THEN 15
    ELSE IF rank(c) # None /\ rank(c) >= 10 THEN 10
    ELSE 5

(***************************************************************************)
(* Python list helpers                                                     *)
(***************************************************************************)
Range(s) == {s[i] : i \in 1..Len(s)}

IsWild(c) == card_type(c) = "wild"
NotWild(c) == card_type(c) # "wild"

RECURSIVE SumSeq(_)
SumSeq(s) == IF s = <<>> THEN 0 ELSE Head(s) + SumSeq(Tail(s))

\* the elements of s at the index set idx, in list order
RECURSIVE SubSeqAt(_, _, _)
SubSeqAt(s, idx, i) ==
    IF i > Len(s) THEN <<>>
    ELSE IF i \in idx THEN <<s[i]>> \o SubSeqAt(s, idx, i + 1)
    ELSE SubSeqAt(s, idx, i + 1)

\* itertools.combinations(cards, k), as index sets
Combinations(s, k) == {idx \in SUBSET (1..Len(s)) : Cardinality(idx) = k}

\* itertools.combinations yields index tuples in lexicographic order
ComboBefore(a, b) ==
    /\ a # b
    /\ LET diff == (a \ b) \cup (b \ a)
           first == CHOOSE m \in diff : \A x \in diff : m <= x
       IN first \in a

\* [c for c in cards if c not in chosen]
Complement(cards, chosen) ==
    LET Keep(c) == c \notin Range(chosen)
    IN SelectSeq(cards, Keep)

Py(b) == IF b THEN "True" ELSE "False"

\* a set of card instances as a list, in ascending instance order
RECURSIVE SetToSeq(_)
SetToSeq(S) ==
    IF S = {} THEN <<>>
    ELSE LET m == CHOOSE x \in S : \A y \in S : x <= y
         IN <<m>> \o SetToSeq(S \ {m})

(***************************************************************************)
(* phases.py: PhaseValidator                                               *)
(***************************************************************************)
is_valid_set(cards, required_count) ==
    IF Len(cards) # required_count THEN FALSE
    ELSE IF cards = <<>> THEN FALSE
    ELSE LET wilds == SelectSeq(cards, IsWild)
             non_wilds == SelectSeq(cards, NotWild)
         IN IF non_wilds = <<>> /\ wilds # <<>> THEN FALSE
            ELSE IF /\ non_wilds # <<>>
                    /\ \E i \in 1..Len(non_wilds) : rank(non_wilds[i]) # rank(non_wilds[1])
                 THEN FALSE
            ELSE Len(wilds) + Len(non_wilds) = required_count

\* the scan of one start position: <<needed_wilds, rank_index>> after the loop
RECURSIVE RunScan(_, _, _, _, _)
RunScan(sorted_ranks, pos, stop, rank_index, needed_wilds) ==
    IF pos >= stop THEN <<needed_wilds, rank_index>>
    ELSE IF rank_index < Len(sorted_ranks) /\ sorted_ranks[rank_index + 1] = pos
    THEN RunScan(sorted_ranks, pos + 1, stop, rank_index + 1, needed_wilds)
    ELSE RunScan(sorted_ranks, pos + 1, stop, rank_index, needed_wilds + 1)

\* mutant: the last start position, the run that ends on rank 12, is left out
Mutant_can_form_run_with_wilds(sorted_ranks, wild_count, target_length) ==
    IF Len(sorted_ranks) + wild_count # target_length THEN FALSE
    ELSE IF sorted_ranks = <<>> THEN FALSE
    ELSE \E start \in 1..(NumRanks - target_length) :
            LET r == RunScan(sorted_ranks, start, start + target_length, 0, 0)
            IN r[1] <= wild_count /\ r[2] = Len(sorted_ranks)

_can_form_run_with_wilds(sorted_ranks, wild_count, target_length) ==
    IF Len(sorted_ranks) + wild_count # target_length THEN FALSE
    ELSE IF sorted_ranks = <<>> THEN FALSE
    ELSE \E start \in 1..(NumRanks + 1 - target_length) :
            LET r == RunScan(sorted_ranks, start, start + target_length, 0, 0)
            IN r[1] <= wild_count /\ r[2] = Len(sorted_ranks)

\* sorted() compares the ranks with <, which raises TypeError as soon as a None
\* (the rank of a Skip) meets any other element
SortedRaises(ranks) == Len(ranks) >= 2 /\ None \in Range(ranks)

is_valid_run(cards, required_count) ==
    IF Len(cards) # required_count THEN "False"
    ELSE IF cards = <<>> THEN "False"
    ELSE LET wilds == SelectSeq(cards, IsWild)
             non_wilds == SelectSeq(cards, NotWild)
             ranks == [i \in 1..Len(non_wilds) |-> rank(non_wilds[i])]
         IN IF non_wilds = <<>> THEN "False"
            ELSE IF SortedRaises(ranks) THEN "TypeError"
            ELSE Py(_can_form_run_with_wilds(SortSeq(ranks, LAMBDA a, b : a < b),
                                             Len(wilds), required_count))

is_valid_color_requirement(cards, required_count) ==
    IF Len(cards) # required_count THEN FALSE
    ELSE IF cards = <<>> THEN FALSE
    ELSE LET wild_count == Len(SelectSeq(cards, IsWild))
             non_wilds == SelectSeq(cards, NotWild)
             color_counts ==
                 [col \in {color(non_wilds[i]) : i \in 1..Len(non_wilds)} |->
                     Cardinality({i \in 1..Len(non_wilds) : color(non_wilds[i]) = col})]
         IN IF \E col \in DOMAIN color_counts :
                   color_counts[col] + wild_count >= required_count
            THEN TRUE
            ELSE wild_count < required_count

_validate_two_sets(cards, set1_size, set2_size) ==
    IF Len(cards) # set1_size + set2_size THEN FALSE
    ELSE \E idx \in Combinations(cards, set1_size) :
            LET set1_list == SubSeqAt(cards, idx, 1)
                set2_list == Complement(cards, set1_list)
            IN /\ is_valid_set(set1_list, set1_size)
               /\ is_valid_set(set2_list, set2_size)

\* what one combination of the loop does: "False" goes on to the next one
SetAndRunStep(cards, idx, set_size, run_size) ==
    LET set_list == SubSeqAt(cards, idx, 1)
        run_list == Complement(cards, set_list)
    IN IF is_valid_set(set_list, set_size)
       THEN is_valid_run(run_list, run_size)
       ELSE "False"

_validate_set_and_run(cards, set_size, run_size) ==
    IF Len(cards) # set_size + run_size THEN "False"
    ELSE LET ending == {idx \in Combinations(cards, set_size) :
                           SetAndRunStep(cards, idx, set_size, run_size) # "False"}
         IN IF ending = {} THEN "False"
            ELSE LET first == CHOOSE a \in ending :
                                 \A b \in ending : a = b \/ ComboBefore(a, b)
                 IN SetAndRunStep(cards, first, set_size, run_size)

validate_phase(cards, phase_number) ==
    IF phase_number = 1 THEN Py(_validate_two_sets(cards, 3, 3))
    ELSE IF phase_number = 2 THEN _validate_set_and_run(cards, 3, 4)
    ELSE IF phase_number = 3 THEN _validate_set_and_run(cards, 4, 4)
    ELSE IF phase_number = 4 THEN is_valid_run(cards, 7)
    ELSE IF phase_number = 5 THEN is_valid_run(cards, 8)
    ELSE IF phase_number = 6 THEN is_valid_run(cards, 9)
    ELSE IF phase_number = 7 THEN Py(_validate_two_sets(cards, 4, 4))
    ELSE IF phase_number = 8 THEN Py(is_valid_color_requirement(cards, 7))
    ELSE IF phase_number = 9 THEN Py(_validate_two_sets(cards, 5, 2))
    ELSE IF phase_number = 10 THEN Py(_validate_two_sets(cards, 5, 3))
    ELSE "False"

\* PHASES: the requirement list of each phase, as <<type, count>> pairs
PHASES ==
    [p \in 1..10 |->
        CASE p = 1 -> << <<"set", 3>>, <<"set", 3>> >>
          [] p = 2 -> << <<"set", 3>>, <<"run", 4>> >>
          [] p = 3 -> << <<"set", 4>>, <<"run", 4>> >>
          [] p = 4 -> << <<"run", 7>> >>
          [] p = 5 -> << <<"run", 8>> >>
          [] p = 6 -> << <<"run", 9>> >>
          [] p = 7 -> << <<"set", 4>>, <<"set", 4>> >>
          [] p = 8 -> << <<"color", 7>> >>
          [] p = 9 -> << <<"set", 5>>, <<"set", 2>> >>
          [] p = 10 -> << <<"set", 5>>, <<"set", 3>> >>]

(***************************************************************************)
(* player.py: hitting                                                      *)
(***************************************************************************)
NumberRanks(phase_cards) ==
    {rank(phase_cards[i]) : i \in {j \in 1..Len(phase_cards) :
                                      card_type(phase_cards[j]) = "number"}}

Mutant_can_add_to_sets(card, phase_cards) ==
    card_type(card) = "wild" \/ card_type(card) = "number"

_can_add_to_sets(card, phase_cards) ==
    IF card_type(card) = "wild" THEN TRUE
    ELSE rank(card) \in NumberRanks(phase_cards)

Mutant_can_add_to_set_and_run(card, phase_cards) == card_type(card) = "wild"

_can_add_to_set_and_run(card, phase_cards) ==
    card_type(card) = "wild" \/ card_type(card) = "number"

Mutant_can_add_to_run(card, phase_cards) ==
    IF card_type(card) = "wild" THEN TRUE
    ELSE IF card_type(card) # "number" THEN FALSE
    ELSE LET existing_numbers == NumberRanks(phase_cards)
         IN IF existing_numbers = {} THEN TRUE
            ELSE LET min_rank == CHOOSE m \in existing_numbers :
                                     \A x \in existing_numbers : m <= x
                 IN rank(card) = min_rank - 1

_can_add_to_run(card, phase_cards) ==
    IF card_type(card) = "wild" THEN TRUE
    ELSE IF card_type(card) # "number" THEN FALSE
    ELSE LET existing_numbers == NumberRanks(phase_cards)
         IN IF existing_numbers = {} THEN TRUE
            ELSE LET min_rank == CHOOSE m \in existing_numbers :
                                     \A x \in existing_numbers : m <= x
                     max_rank == CHOOSE m \in existing_numbers :
                                     \A x \in existing_numbers : m >= x
                 IN rank(card) = min_rank - 1 \/ rank(card) = max_rank + 1

\* max(color_counts, key=color_counts.get): the first key, in the order the dict
\* received its keys (first occurrence in phase_cards), that has the highest count
DominantColor(phase_cards) ==
    LET numbers == SelectSeq(phase_cards, LAMBDA c : card_type(c) = "number")
        count(col) == Cardinality({i \in 1..Len(numbers) : color(numbers[i]) = col})
        top == CHOOSE i \in 1..Len(numbers) :
                  /\ \A j \in 1..Len(numbers) :
                        count(color(numbers[j])) <= count(color(numbers[i]))
                  /\ \A j \in 1..(i - 1) :
                        count(color(numbers[j])) < count(color(numbers[i]))
    IN color(numbers[top])

Mutant_can_add_to_color_group(card, phase_cards) ==
    card_type(card) = "wild" \/ card_type(card) = "number"

_can_add_to_color_group(card, phase_cards) ==
    IF card_type(card) = "wild" THEN TRUE
    ELSE IF card_type(card) # "number" THEN FALSE
    ELSE IF NumberRanks(phase_cards) = {} THEN TRUE
    ELSE color(card) = DominantColor(phase_cards)

_can_add_to_phase_cards(card, phase_cards, phase_number) ==
    IF card_type(card) = "skip" THEN FALSE
    ELSE IF phase_number \in {1, 7, 9, 10} THEN _can_add_to_sets(card, phase_cards)
    ELSE IF phase_number \in {2, 3} THEN _can_add_to_set_and_run(card, phase_cards)
    ELSE IF phase_number \in {4, 5, 6} THEN _can_add_to_run(card, phase_cards)
    ELSE IF phase_number = 8 THEN _can_add_to_color_group(card, phase_cards)
    ELSE FALSE

Mutant_can_hit_on_phase(player, card, target_player) ==
    IF ~completed_phase_this_round[target_player] THEN FALSE
    ELSE _can_add_to_phase_cards(card, completed_phase_cards[target_player],
                                 current_phase[target_player])

\* Player.can_hit_on_phase / can_hit_on_own_phase (target = player)
can_hit_on_phase(player, card, target_player) ==
    IF ~completed_phase_this_round[player] \/ ~completed_phase_this_round[target_player]
    THEN FALSE
    ELSE _can_add_to_phase_cards(card, completed_phase_cards[target_player],
                                 current_phase[target_player])

(***************************************************************************)
(* player.py: the hand and phase completion                                *)
(***************************************************************************)
\* list.remove(card): the list without the first occurrence of card
RECURSIVE ListRemove(_, _)
ListRemove(s, card) ==
    IF s = <<>> THEN <<>>
    ELSE IF Head(s) = card THEN Tail(s)
    ELSE <<Head(s)>> \o ListRemove(Tail(s), card)

\* the removal loop of complete_phase from position i on: <<"True", hand>> when
\* every card could be removed, else <<"False", hand after the add-back loop>>
RECURSIVE RemoveSelected(_, _, _)
RemoveSelected(h, selected, i) ==
    IF i > Len(selected) THEN <<"True", h>>
    ELSE IF selected[i] \in Range(h)
    THEN RemoveSelected(ListRemove(h, selected[i]), selected, i + 1)
    ELSE LET stop == CHOOSE j \in 1..Len(selected) :
                        /\ selected[j] = selected[i]
                        /\ \A k \in 1..(j - 1) : selected[k] # selected[i]
         IN <<"False", h \o SubSeq(selected, 1, stop - 1)>>

Mutant_hit_on_phase(player, card, target_player) ==
    IF can_hit_on_phase(player, card, target_player) /\ card \in Range(hand[player])
    THEN <<"True", ListRemove(hand[player], card),
           <<card>> \o completed_phase_cards[target_player]>>
    ELSE <<"False", hand[player], completed_phase_cards[target_player]>>

Mutant_hit_on_phase_not_held(player, card, target_player) ==
    IF ~can_hit_on_phase(player, card, target_player)
    THEN <<"False", hand[player], completed_phase_cards[target_player]>>
    ELSE IF card \in Range(hand[player])
    THEN <<"True", ListRemove(hand[player], card),
           Append(completed_phase_cards[target_player], card)>>
    ELSE <<"False", hand[player], Append(completed_phase_cards[target_player], card)>>

\* Player.hit_on_phase / hit_on_own_phase (target = player): <<returned value,
\* new hand of the player, new completed_phase_cards of the target>>
hit_on_phase(player, card, target_player) ==
    IF ~can_hit_on_phase(player, card, target_player)
    THEN <<"False", hand[player], completed_phase_cards[target_player]>>
    ELSE IF card \in Range(hand[player])
    THEN <<"True", ListRemove(hand[player], card),
           Append(completed_phase_cards[target_player], card)>>
    ELSE <<"False", hand[player], completed_phase_cards[target_player]>>

Mutant_can_complete_phase(player, selected) ==
    validate_phase(selected, current_phase[player])

can_complete_phase(player, selected) ==
    IF completed_phase_this_round[player] THEN "False"
    ELSE validate_phase(selected, current_phase[player])

\* Player.complete_phase: <<returned value, new hand, new completed_phase_cards,
\* new completed_phase_this_round>> ("TypeError": the exception leaves the player as is)
complete_phase(player, selected) ==
    LET can == can_complete_phase(player, selected)
        unchanged == <<can, hand[player], completed_phase_cards[player],
                       completed_phase_this_round[player]>>
    IN IF can # "True" THEN unchanged
       ELSE LET r == RemoveSelected(hand[player], selected, 1)
            IN IF r[1] = "False"
               THEN <<"False", r[2], completed_phase_cards[player],
                      completed_phase_this_round[player]>>
               ELSE <<"True", r[2], selected, TRUE>>

get_hand_points(h) == SumSeq([i \in 1..Len(h) |-> get_points(h[i])])

Mutant_advance_backwards(completed, phase) ==
    IF completed /\ phase < 10 THEN phase - 1 ELSE phase

Mutant_advance_unasked(completed, phase) ==
    IF phase < 10 THEN phase + 1 ELSE phase

advance_to_next_phase(completed, phase) ==
    IF completed /\ phase < 10 THEN phase + 1 ELSE phase

is_finished_with_all_phases(phase) == phase > 10

(***************************************************************************)
(* game.py                                                                 *)
(***************************************************************************)
MinPlayers == 2
PlayerLimit == 6
HandSize == 10

\* names of players, as the tests and the prompt of main.py give them
AllNames == <<"Alice", "Bob", "Charlie", "Dave", "Eve", "Frank", "Grace">>

PlayerNames(n) == SubSeq(AllNames, 1, n)
Players == 0..(nplayers - 1)

\* Deck.shuffle is random.shuffle: any permutation may come out.  The model draws
\* the outcome from a few stacked decks: the cards listed in first_drawn leave the
\* deck first, in that order; the others stay below in the order of _create_deck.
Stack(first_drawn) ==
    LET drawn == Range(first_drawn)
        Below(c) == c \notin drawn
        Reverse(q) == [i \in 1..Len(q) |-> q[Len(q) + 1 - i]]
    IN SelectSeq(_create_deck, Below) \o Reverse(first_drawn)

\* Two deals a shuffle may bring about: in the first, the first two players hold
\* the cards of phase 1 (two sets of three) and cards to hit with; in the second,
\* nobody holds two cards of a rank and a Skip opens the discard pile.
Deals == {"sets", "nothing"}

PlainRanks == <<1, 2, 3, 4, 6, 7, 9, 10, 11, 12>>

PlainHand(col, copy) == [r \in 1..HandSize |-> NumberCard(PlainRanks[r], col, copy)]

DealtHand(deal, p) ==
    CASE p >= 2 -> PlainHand(Colors[p - 1], 2)
      [] p = 0 /\ deal = "sets" ->
             << NumberCard(5, "red", 1), NumberCard(5, "blue", 1),
                NumberCard(5, "green", 1), NumberCard(8, "red", 1),
                NumberCard(8, "blue", 1), NumberCard(8, "yellow", 1),
                SkipCard(1), NumberCard(5, "yellow", 1),
                NumberCard(8, "green", 1), NumberCard(12, "red", 1) >>
      [] p = 1 /\ deal = "sets" ->
             << NumberCard(3, "red", 1), NumberCard(3, "blue", 1),
                NumberCard(3, "green", 1), NumberCard(7, "red", 1),
                NumberCard(7, "blue", 1), NumberCard(7, "green", 1),
                NumberCard(11, "blue", 1), NumberCard(1, "red", 1),
                SkipCard(2), NumberCard(10, "yellow", 1) >>
      [] OTHER -> PlainHand(Colors[p + 3], 1)

FollowingCards(deal) ==
    IF deal = "sets"
    THEN << NumberCard(5, "red", 2), NumberCard(8, "red", 2), WildCard(2),
            NumberCard(4, "red", 1), SkipCard(3), NumberCard(5, "blue", 2) >>
    ELSE << SkipCard(3), NumberCard(5, "red", 2), WildCard(2),
            NumberCard(8, "red", 2), NumberCard(5, "blue", 2), NumberCard(8, "blue", 2) >>

DealOrder(n, deal) ==
    [j \in 1..(HandSize * n) |-> DealtHand(deal, (j - 1) % n)[((j - 1) \div n) + 1]]
        \o FollowingCards(deal)

StackedDecks ==
    [n \in MinPlayers..PlayerLimit |-> {Stack(DealOrder(n, deal)) : deal \in Deals}]

ShuffleOutcomes(n) == StackedDecks[n]

Mutant_deal_cards(d, n) ==
    [p \in 0..(n - 1) |-> [r \in 1..(HandSize - 1) |-> d[Len(d) - (r - 1) * n - p]]]

\* _deal_cards: ten times round the table, each card popped from the end of the deck
_deal_cards(d, n) ==
    [p \in 0..(n - 1) |-> [r \in 1..HandSize |-> d[Len(d) - (r - 1) * n - p]]]

Mutant_DealRound(d, n) ==
    /\ hand' = _deal_cards(d, n)
    /\ discard_pile' = Append(discard_pile, d[Len(d) - HandSize * n])
    /\ deck' = SubSeq(d, 1, Len(d) - HandSize * n - 1)

\* _deal_cards, then _setup_discard_pile, on the freshly shuffled deck d
DealRound(d, n) ==
    /\ hand' = _deal_cards(d, n)
    /\ discard_pile' = <<d[Len(d) - HandSize * n]>>
    /\ deck' = SubSeq(d, 1, Len(d) - HandSize * n - 1)

Mutant_discard_card_kept(p, card) ==
    IF card \in Range(hand[p])
    THEN <<"True", ListRemove(hand[p], card), discard_pile>>
    ELSE <<"False", hand[p], discard_pile>>

Mutant_discard_card(p, card) ==
    LET Other(c) == rank(c) # rank(card) \/ card_type(c) # card_type(card)
    IN IF card \in Range(hand[p])
       THEN <<"True", SelectSeq(hand[p], Other), Append(discard_pile, card)>>
       ELSE <<"False", hand[p], discard_pile>>

\* Phase10Game.discard_card: <<returned value, new hand, new discard pile>>
discard_card(p, card) ==
    IF card \in Range(hand[p])
    THEN <<"True", ListRemove(hand[p], card), Append(discard_pile, card)>>
    ELSE <<"False", hand[p], discard_pile>>

Mutant_get_next_player_index(skip_count) == current_player_index + skip_count

get_next_player_index(skip_count) == (current_player_index + skip_count) % nplayers

Mutant_handle_skip_card == IF nplayers = 2 THEN 1 ELSE 2

handle_skip_card == IF nplayers = 2 THEN 0 ELSE 2

check_round_end == \E p \in Players : Len(hand[p]) = 0

\* Phase10Game.__init__ for n players
NewGame(n) ==
    /\ nplayers = n
    /\ names = PlayerNames(n)
    /\ \E d \in ShuffleOutcomes(n) :
          /\ hand = _deal_cards(d, n)
          /\ discard_pile = <<d[Len(d) - HandSize * n]>>
          /\ deck = SubSeq(d, 1, Len(d) - HandSize * n - 1)
    /\ current_phase = [p \in 0..(n - 1) |-> 1]
    /\ completed_phase_this_round = [p \in 0..(n - 1) |-> FALSE]
    /\ completed_phase_cards = [p \in 0..(n - 1) |-> <<>>]
    /\ score = [p \in 0..(n - 1) |-> 0]
    /\ current_player_index = 0
    /\ round_number = 1
    /\ game_over = FALSE
    /\ winner = NoPlayer
    /\ round_winner = NoPlayer

(***************************************************************************)
(* main.py: the game loop.  pc is the position of the loop:                *)
(*   "draw", "phase", "hit", "discard"  the four steps of play_turn        *)
(*   "end_round"       play_round has left its loop                        *)
(*   "check_game_end"  play_game is about to call check_game_end           *)
(*   "next_round"      play_game waits for Enter before start_new_round    *)
(*   "finished"        play_game has left its loop                         *)
(*   "crashed"         an exception reached main()                         *)
(***************************************************************************)
player == current_player_index

PhaseSize(phase_number) ==
    SumSeq([i \in 1..Len(PHASES[phase_number]) |-> PHASES[phase_number][i][2]])

\* the card lists a player enters in select_cards_for_phase: as many cards as
\* the phase asks for, taken from the front or from the back of the hand
PhaseSelections(h, phase_number) ==
    IF Len(h) < PhaseSize(phase_number) THEN {}
    ELSE {SubSeq(h, 1, PhaseSize(phase_number)),
          SubSeq(h, Len(h) - PhaseSize(phase_number) + 1, Len(h))}

\* handle_draw_phase, choice "1"
DrawFromDeck ==
    /\ pc = "draw"
    /\ turns < MaxTurns
    /\ turns' = turns + 1
    /\ IF deck = <<>>
       THEN UNCHANGED <<deck, hand>> /\ ret' = "None"
       ELSE /\ deck' = SubSeq(deck, 1, Len(deck) - 1)
            /\ hand' = [hand EXCEPT ![player] = Append(@, deck[Len(deck)])]
            /\ ret' = "Card"
    /\ fn' = "player_draw_card"
    /\ pc' = IF completed_phase_this_round[player] THEN "hit" ELSE "phase"
    /\ UNCHANGED <<nplayers, names, current_phase, completed_phase_this_round,
                   completed_phase_cards, score, discard_pile, current_player_index,
                   round_number, game_over, winner, round_winner, selected_cards, arg>>

\* handle_draw_phase: whether choice "2" is accepted
Mutant_can_take_discard == discard_pile # <<>>

can_take_discard ==
    /\ discard_pile # <<>>
    /\ card_type(discard_pile[Len(discard_pile)]) # "skip"

\* handle_draw_phase, choice "2": offered unless the top of the discard pile is a Skip
DrawFromDiscard ==
    /\ pc = "draw"
    /\ turns < MaxTurns
    /\ can_take_discard
    /\ turns' = turns + 1
    /\ discard_pile' = SubSeq(discard_pile, 1, Len(discard_pile) - 1)
    /\ hand' = [hand EXCEPT ![player] = Append(@, discard_pile[Len(discard_pile)])]
    /\ ret' = "Card"
    /\ fn' = "player_draw_card"
    /\ pc' = IF completed_phase_this_round[player] THEN "hit" ELSE "phase"
    /\ UNCHANGED <<nplayers, names, current_phase, completed_phase_this_round,
                   completed_phase_cards, score, deck, current_player_index,
                   round_number, game_over, winner, round_winner, selected_cards, arg>>

\* handle_phase_completion answered "n", or with an empty selection
DeclinePhase ==
    /\ pc = "phase"
    /\ fn' = "handle_phase_completion"
    /\ ret' = "None"
    /\ pc' = "discard"
    /\ UNCHANGED <<gameVars, selected_cards, arg, turns>>

\* handle_phase_completion answered "y": player_complete_phase on the selection
AttemptPhase ==
    /\ pc = "phase"
    /\ \E selected \in PhaseSelections(hand[player], current_phase[player]) :
          LET r == complete_phase(player, selected)
          IN /\ ret' = r[1]
             /\ hand' = [hand EXCEPT ![player] = r[2]]
             /\ completed_phase_cards' = [completed_phase_cards EXCEPT ![player] = r[3]]
             /\ completed_phase_this_round' =
                    [completed_phase_this_round EXCEPT ![player] = r[4]]
             /\ pc' = IF r[1] = "TypeError" THEN "crashed"
                      ELSE IF r[4] THEN "hit" ELSE "discard"
    /\ fn' = "complete_phase"
    /\ UNCHANGED <<nplayers, names, current_phase, score, deck, discard_pile,
                   current_player_index, round_number, game_over, winner,
                   round_winner, selected_cards, arg, turns>>

\* handle_hitting_phase: one hit of a card of the hand on the player's own phase
\* (target 0) or on the phase of another player who completed one
Hit ==
    /\ pc = "hit"
    /\ \E target_player \in {t \in Players : t = player \/ completed_phase_this_round[t]},
          i \in 1..Len(hand[player]) :
          LET r == hit_on_phase(player, hand[player][i], target_player)
          IN /\ ret' = r[1]
             /\ hand' = [hand EXCEPT ![player] = r[2]]
             /\ completed_phase_cards' =
                    [completed_phase_cards EXCEPT ![target_player] = r[3]]
    /\ fn' = "hit_on_phase"
    /\ UNCHANGED <<nplayers, names, current_phase, completed_phase_this_round, score, deck,
                   discard_pile, current_player_index, round_number, game_over,
                   winner, round_winner, pc, selected_cards, arg, turns>>

\* handle_hitting_phase answered "n" or "done"
HitDone ==
    /\ pc = "hit"
    /\ fn' = "handle_hitting_phase"
    /\ ret' = "None"
    /\ pc' = "discard"
    /\ UNCHANGED <<gameVars, selected_cards, arg, turns>>

\* handle_discard_phase, then advance_turn, then the loop test of play_round
Discard ==
    /\ pc = "discard"
    /\ \E i \in 1..Len(hand[player]) :
          LET card == hand[player][i]
              skip_count == IF card_type(card) = "skip" THEN handle_skip_card ELSE 1
              r == discard_card(player, card)
              new_hand == [hand EXCEPT ![player] = r[2]]
          IN /\ hand' = new_hand
             /\ discard_pile' = r[3]
             /\ ret' = r[1]
             /\ current_player_index' = get_next_player_index(skip_count)
             /\ arg' = skip_count
             /\ pc' = IF \E p \in Players : Len(new_hand[p]) = 0
                      THEN "end_round" ELSE "draw"
    /\ fn' = "discard_card"
    /\ UNCHANGED <<nplayers, names, current_phase, completed_phase_this_round,
                   completed_phase_cards, score, deck, round_number, game_over,
                   winner, round_winner, selected_cards, turns>>

\* Phase10Game.end_round
FirstOut ==
    IF check_round_end
    THEN CHOOSE p \in Players : Len(hand[p]) = 0 /\ \A q \in 0..(p - 1) : Len(hand[q]) # 0
    ELSE NoPlayer

Mutant_OthersPoints(w) ==
    0 - SumSeq([i \in 1..nplayers |-> IF i - 1 = w THEN 0 ELSE get_hand_points(hand[i - 1])])

OthersPoints(w) ==
    SumSeq([i \in 1..nplayers |-> IF i - 1 = w THEN 0 ELSE get_hand_points(hand[i - 1])])

EndRound ==
    /\ pc = "end_round"
    /\ round_winner' = FirstOut
    /\ score' = IF FirstOut = NoPlayer THEN score
                ELSE [score EXCEPT ![FirstOut] = @ + OthersPoints(FirstOut)]
    /\ current_phase' = [p \in Players |->
           advance_to_next_phase(completed_phase_this_round[p], current_phase[p])]
    /\ fn' = "end_round"
    /\ ret' = IF FirstOut = NoPlayer THEN "None" ELSE "Player"
    /\ pc' = "check_game_end"
    /\ UNCHANGED <<nplayers, names, hand, completed_phase_this_round, completed_phase_cards,
                   deck, discard_pile, current_player_index, round_number, game_over,
                   winner, selected_cards, arg, turns>>

\* Phase10Game.check_game_end, and what play_game does with its answer
completed_all_phases == {p \in Players : is_finished_with_all_phases(current_phase[p])}

Mutant_MaxByScore(ps) ==
    CHOOSE p \in ps : /\ \A q \in ps : score[q] <= score[p]
                      /\ \A q \in ps : q > p => score[q] < score[p]

MaxByScore(ps) ==
    CHOOSE p \in ps : /\ \A q \in ps : score[q] <= score[p]
                      /\ \A q \in ps : q < p => score[q] < score[p]

CheckGameEnd ==
    /\ pc = "check_game_end"
    /\ IF Cardinality(completed_all_phases) = 1
       THEN /\ winner' = CHOOSE p \in completed_all_phases : TRUE
            /\ game_over' = TRUE
            /\ ret' = "True"
       ELSE IF Cardinality(completed_all_phases) > 1
       THEN /\ winner' = MaxByScore(completed_all_phases)
            /\ game_over' = TRUE
            /\ ret' = "True"
       ELSE /\ UNCHANGED <<winner, game_over>>
            /\ ret' = "False"
    /\ fn' = "check_game_end"
    /\ pc' = IF completed_all_phases # {} THEN "finished" ELSE "next_round"
    /\ UNCHANGED <<nplayers, names, hand, current_phase, completed_phase_this_round,
                   completed_phase_cards, score, deck, discard_pile,
                   current_player_index, round_number, round_winner,
                   selected_cards, arg, turns>>

\* Phase10Game.start_new_round, then play_round enters its loop
StartNewRound ==
    /\ pc = "next_round"
    /\ round_number < MaxRounds
    /\ round_number' = round_number + 1
    /\ completed_phase_this_round' = [p \in Players |-> FALSE]
    /\ completed_phase_cards' = [p \in Players |-> <<>>]
    /\ \E d \in ShuffleOutcomes(nplayers) : DealRound(d, nplayers)
    /\ fn' = "start_new_round"
    /\ ret' = "None"
    /\ pc' = "draw"
    /\ UNCHANGED <<nplayers, names, current_phase, score, current_player_index, game_over,
                   winner, round_winner, selected_cards, arg, turns>>

Init ==
    /\ \E n \in MinPlayers..MaxPlayers : NewGame(n)
    /\ pc = "draw"
    /\ fn = "none"
    /\ selected_cards = <<>>
    /\ arg = 0
    /\ ret = "None"
    /\ turns = 0

Next ==
    \/ DrawFromDeck
    \/ DrawFromDiscard
    \/ DeclinePhase
    \/ AttemptPhase
    \/ Hit
    \/ HitDone
    \/ Discard
    \/ EndRound
    \/ CheckGameEnd
    \/ StartNewRound

Spec == Init /\ [][Next]_vars

(***************************************************************************)
(* The end of a round, from bounded round-end states.  play_round leaves   *)
(* its loop when a discard empties a hand: one hand is empty, its owner    *)
(* has laid down a phase, the others hold cards.                           *)
(***************************************************************************)
PhaseSamples == {1, 9, 10}
ScoreSamples(n) == {[p \in 0..(n - 1) |-> 0], [p \in 0..(n - 1) |-> 45 + 5 * p]}

\* hands left to the players who did not go out: 5 and 65 points
HandSamples(p) ==
    << << NumberCard(9, Colors[(p % 4) + 1], (p \div 4) + 1) >>,
       << WildCard(p + 1), SkipCard((p % 4) + 1),
          NumberCard(10, Colors[(p % 4) + 1], (p \div 4) + 1),
          NumberCard(12, Colors[(p % 4) + 1], (p \div 4) + 1),
          NumberCard(9, Colors[(p % 4) + 1], 2 - (p \div 4)) >> >>

\* the k-th card of a rank, colours first
NthOfRank(r, k) == NumberCard(r, Colors[((k - 1) % 4) + 1], ((k - 1) \div 4) + 1)

\* two sets laid down by player p for a phase of two sets (1, 9 and 10)
LaidSample(p, phase_number) ==
    LET size1 == PHASES[phase_number][1][2]
        size2 == PHASES[phase_number][2][2]
    IN [i \in 1..size1 |-> NthOfRank(p + 1, i)]
          \o [i \in 1..size2 |-> NthOfRank(7 + (p \div 2), 3 * (p % 2) + i)]

LastDiscard == NumberCard(11, "red", 1)

RestOfDeck(hands, laid, pile) ==
    LET held == Range(pile) \cup UNION {Range(hands[p]) \cup Range(laid[p]) : p \in DOMAIN hands}
        Free(c) == c \notin held
    IN SelectSeq(_create_deck, Free)

RoundEndState(n, out) ==
    /\ nplayers = n
    /\ names = PlayerNames(n)
    /\ current_phase \in [0..(n - 1) -> PhaseSamples]
    /\ completed_phase_this_round \in [0..(n - 1) -> BOOLEAN]
    /\ completed_phase_this_round[out]
    /\ completed_phase_cards = [p \in 0..(n - 1) |->
           IF completed_phase_this_round[p] THEN LaidSample(p, current_phase[p])
           ELSE <<>>]
    /\ \E left \in [0..(n - 1) -> 1..Len(HandSamples(0))] :
          /\ left[out] = 1
          /\ hand = [p \in 0..(n - 1) |->
                        IF p = out THEN <<>> ELSE HandSamples(p)[left[p]]]
    /\ score \in ScoreSamples(n)
    /\ discard_pile = <<LastDiscard>>
    /\ deck = RestOfDeck(hand, completed_phase_cards, discard_pile)
    /\ current_player_index = (out + 1) % n
    /\ round_number = 1
    /\ game_over = FALSE
    /\ winner = NoPlayer
    /\ round_winner = NoPlayer

InitRound ==
    /\ \E n \in MinPlayers..MaxPlayers : \E out \in 0..(n - 1) : RoundEndState(n, out)
    /\ pc = "end_round"
    /\ fn = "none"
    /\ selected_cards = <<>>
    /\ arg = 0
    /\ ret = "None"
    /\ turns = 0

NextRound ==
    \/ EndRound
    \/ CheckGameEnd
    \/ StartNewRound

SpecRound == InitRound /\ [][NextRound]_vars

\* play_game runs on: a call that can be made is made
FairSpecRound == SpecRound /\ WF_vars(NextRound)

(***************************************************************************)
(* check_game_end on bounded inputs: the phases and scores of the players  *)
(* when play_game calls it, phase 11 (all phases finished) included.       *)
(***************************************************************************)
FinalPhaseSamples == {10, 11}
FinalScoreSamples == {0, 280, 300}

InitGameEnd ==
    /\ \E n \in MinPlayers..MaxPlayers :
          /\ nplayers = n
          /\ names = PlayerNames(n)
          /\ current_phase \in [0..(n - 1) -> FinalPhaseSamples]
          /\ score \in [0..(n - 1) -> FinalScoreSamples]
          /\ completed_phase_this_round = [p \in 0..(n - 1) |-> current_phase[p] = 11]
          /\ completed_phase_cards = [p \in 0..(n - 1) |->
                 IF completed_phase_this_round[p] THEN LaidSample(p, 10) ELSE <<>>]
          /\ hand = [p \in 0..(n - 1) |->
                 IF p = 0 THEN <<>> ELSE HandSamples(p)[1]]
    /\ discard_pile = <<LastDiscard>>
    /\ deck = RestOfDeck(hand, completed_phase_cards, discard_pile)
    /\ current_player_index = 1 % nplayers
    /\ round_number = 1
    /\ game_over = FALSE
    /\ winner = NoPlayer
    /\ round_winner = 0
    /\ pc = "check_game_end"
    /\ fn = "end_round"
    /\ selected_cards = <<>>
    /\ arg = 0
    /\ ret = "Player"
    /\ turns = 0

NextGameEnd ==
    \/ CheckGameEnd
    \/ StartNewRound

SpecGameEnd == InitGameEnd /\ [][NextGameEnd]_vars

(***************************************************************************)
(* The validators applied to bounded inputs.  A selection is a list of     *)
(* card instances as select_cards_for_phase (main.py) builds it from the   *)
(* player's hand.                                                          *)
(***************************************************************************)
CardInputs ==
    { NumberCard(4, "red", 1), NumberCard(5, "red", 1), NumberCard(6, "green", 1),
      NumberCard(7, "red", 1), NumberCard(8, "red", 1), NumberCard(9, "red", 1),
      NumberCard(5, "blue", 1), NumberCard(8, "blue", 1),
      WildCard(1), WildCard(2), WildCard(3), WildCard(4), SkipCard(1) }

\* the two selections of the phase 1 scenario (test_phase_validation)
ExampleSelections ==
    { << NumberCard(5, "red", 1), NumberCard(5, "blue", 1), NumberCard(5, "green", 1),
         NumberCard(8, "red", 1), NumberCard(8, "blue", 1), NumberCard(8, "yellow", 1) >>,
      << NumberCard(5, "red", 1), NumberCard(5, "blue", 1), NumberCard(6, "green", 1),
         NumberCard(8, "red", 1), NumberCard(8, "blue", 1), NumberCard(8, "yellow", 1) >> }

\* runs at both ends of the rank range, and more than one Skip
EdgeSelections ==
    { << NumberCard(1, "red", 1), NumberCard(2, "red", 1), WildCard(1) >>,
      << NumberCard(11, "red", 1), NumberCard(12, "red", 1), WildCard(1) >>,
      << NumberCard(12, "red", 1), NumberCard(11, "red", 1), NumberCard(10, "red", 1) >>,
      << NumberCard(12, "red", 1), NumberCard(1, "red", 1) >>,
      << NumberCard(5, "red", 1), NumberCard(5, "red", 2) >>,
      << SkipCard(1), SkipCard(2), SkipCard(3) >>,
      << SkipCard(1), SkipCard(2), SkipCard(3),
         NumberCard(5, "red", 1), NumberCard(5, "blue", 1), NumberCard(5, "green", 1) >> }

Selections ==
    {SetToSeq(S) : S \in {T \in SUBSET CardInputs : Cardinality(T) <= MaxSel}}
        \cup ExampleSelections \cup EdgeSelections

\* the required_count values tried on a list: its length and the two next to it
CountInputs(cards) == {n \in {Len(cards) - 1, Len(cards), Len(cards) + 1} : n >= 0}

PhaseNumbers == 1..10

\* no game has been constructed
NoGame ==
    /\ nplayers = 0
    /\ names = <<>>
    /\ hand = <<>>
    /\ current_phase = <<>>
    /\ completed_phase_this_round = <<>>
    /\ completed_phase_cards = <<>>
    /\ score = <<>>
    /\ deck = <<>>
    /\ discard_pile = <<>>
    /\ current_player_index = 0
    /\ round_number = 1
    /\ game_over = FALSE
    /\ winner = NoPlayer
    /\ round_winner = NoPlayer
    /\ turns = 0

InitValidate ==
    /\ NoGame
    /\ pc = "validator"
    /\ fn = "none"
    /\ selected_cards \in Selections
    /\ arg = 0
    /\ ret = "None"

CallIsValidSet ==
    /\ pc = "validator" /\ fn = "none"
    /\ \E n \in CountInputs(selected_cards) :
          /\ arg' = n
          /\ ret' = Py(is_valid_set(selected_cards, n))
    /\ fn' = "is_valid_set"
    /\ UNCHANGED <<gameVars, pc, selected_cards, turns>>

CallIsValidRun ==
    /\ pc = "validator" /\ fn = "none"
    /\ \E n \in CountInputs(selected_cards) :
          /\ arg' = n
          /\ ret' = is_valid_run(selected_cards, n)
    /\ fn' = "is_valid_run"
    /\ UNCHANGED <<gameVars, pc, selected_cards, turns>>

CallIsValidColorRequirement ==
    /\ pc = "validator" /\ fn = "none"
    /\ \E n \in CountInputs(selected_cards) :
          /\ arg' = n
          /\ ret' = Py(is_valid_color_requirement(selected_cards, n))
    /\ fn' = "is_valid_color_requirement"
    /\ UNCHANGED <<gameVars, pc, selected_cards, turns>>

CallValidatePhase ==
    /\ pc = "validator" /\ fn = "none"
    /\ \E p \in PhaseNumbers :
          /\ arg' = p
          /\ ret' = validate_phase(selected_cards, p)
    /\ fn' = "validate_phase"
    /\ UNCHANGED <<gameVars, pc, selected_cards, turns>>

NextValidate ==
    \/ CallIsValidSet
    \/ CallIsValidRun
    \/ CallIsValidColorRequirement
    \/ CallValidatePhase

SpecValidate == InitValidate /\ [][NextValidate]_vars

(***************************************************************************)
(* Player.complete_phase called on bounded inputs: a player who has just   *)
(* drawn holds eleven cards and enters a selection.  The method is also    *)
(* called on a player who already laid down a phase this round and holds   *)
(* cards as before (add_card_to_hand, the /give command of main.py).       *)
(* pc = "call" is the point of the call, "returned" and "crashed" the two  *)
(* ways it ends.                                                           *)
(***************************************************************************)
AttemptHand ==
    << NumberCard(5, "red", 1), NumberCard(5, "blue", 1), NumberCard(5, "green", 1),
       NumberCard(8, "red", 1), NumberCard(8, "blue", 1), NumberCard(8, "yellow", 1),
       NumberCard(6, "red", 1), NumberCard(7, "red", 1), NumberCard(9, "red", 1),
       SkipCard(1), WildCard(1) >>

\* the card numbers typed in select_cards_for_phase; a number may be typed twice
AttemptIndices ==
    { <<1, 2, 3, 4, 5, 6>>,        \* 5 5 5 8 8 8
      <<1, 1, 1, 4, 5, 6>>,        \* the first 5 three times
      <<1, 2, 3, 4, 5, 4>>,        \* the first 8 twice
      <<1, 2, 7, 4, 5, 6>>,        \* 5 5 6 8 8 8
      <<1, 2, 11, 4, 5, 6>>,       \* 5 5 Wild 8 8 8
      <<1, 2, 3, 7, 8, 4, 9>>,     \* 5 5 5 and 6 7 8 9
      <<1, 2, 3, 7, 8, 4, 10>>,    \* 5 5 5 and 6 7 8 Skip
      <<1, 2, 3, 7, 8, 4, 11>>,    \* 5 5 5 and 6 7 8 Wild
      <<1, 7, 8, 4, 9, 11, 11>>,   \* 5 6 7 8 9 and the Wild twice
      <<1, 4, 7, 8, 9, 11, 10>>,   \* seven red cards, the Skip last
      <<10, 1, 4, 7, 8, 9, 11>> }  \* seven red cards, the Skip first

\* a card the player does not hold
NotHeld == NumberCard(8, "green", 1)

AttemptSelections ==
    {[i \in 1..Len(idx) |-> AttemptHand[idx[i]]] : idx \in AttemptIndices}
        \cup {SubSeq(AttemptHand, 1, 5) \o <<NotHeld>>}

AttemptPhases == {1, 2, 4, 8}

AttemptState(phase_number, completed) ==
    /\ nplayers = MinPlayers
    /\ names = PlayerNames(MinPlayers)
    /\ current_phase = [p \in 0..(MinPlayers - 1) |-> IF p = 0 THEN phase_number ELSE 1]
    /\ completed_phase_this_round = [p \in 0..(MinPlayers - 1) |-> p = 0 /\ completed]
    /\ completed_phase_cards = [p \in 0..(MinPlayers - 1) |->
           IF p = 0 /\ completed THEN LaidSample(1, phase_number) ELSE <<>>]
    /\ hand = [p \in 0..(MinPlayers - 1) |->
           IF p = 1 THEN PlainHand("yellow", 2) ELSE AttemptHand]
    /\ score = [p \in 0..(MinPlayers - 1) |-> 0]
    /\ discard_pile = <<LastDiscard>>
    /\ deck = RestOfDeck(hand, completed_phase_cards, discard_pile)
    /\ current_player_index = 0
    /\ round_number = phase_number
    /\ game_over = FALSE
    /\ winner = NoPlayer
    /\ round_winner = NoPlayer

InitAttempt ==
    /\ \E phase_number \in AttemptPhases, completed \in BOOLEAN :
          /\ completed => phase_number = 1
          /\ AttemptState(phase_number, completed)
    /\ pc = "call"
    /\ fn = "none"
    /\ selected_cards \in AttemptSelections
    /\ arg = 0
    /\ ret = "None"
    /\ turns = 0

\* player.complete_phase(selected_cards)
CallCompletePhase ==
    /\ pc = "call"
    /\ LET r == complete_phase(player, selected_cards)
       IN /\ ret' = r[1]
          /\ hand' = [hand EXCEPT ![player] = r[2]]
          /\ completed_phase_cards' = [completed_phase_cards EXCEPT ![player] = r[3]]
          /\ completed_phase_this_round' =
                 [completed_phase_this_round EXCEPT ![player] = r[4]]
          /\ pc' = IF r[1] = "TypeError" THEN "crashed" ELSE "returned"
    /\ fn' = "complete_phase"
    /\ UNCHANGED <<nplayers, names, current_phase, score, deck, discard_pile,
                   current_player_index, round_number, game_over, winner,
                   round_winner, selected_cards, arg, turns>>

NextAttempt == CallCompletePhase

SpecAttempt == InitAttempt /\ [][NextAttempt]_vars

(***************************************************************************)
(* The hitting and discard steps of a turn on bounded inputs: player 0     *)
(* laid down phase 1 earlier in the round, has drawn, and holds few cards; *)
(* player 1 may have laid down phase 1 as well.                            *)
(***************************************************************************)
\* what player 0 holds when handle_hitting_phase starts
HitHands ==
    { << NumberCard(1, "yellow", 1), WildCard(1) >>,
      << NumberCard(1, "yellow", 1), SkipCard(1) >>,
      << NumberCard(12, "red", 1), NumberCard(2, "yellow", 1) >>,
      << NumberCard(7, "green", 2), NumberCard(12, "red", 1), WildCard(1) >> }

HitState(held, other_completed) ==
    /\ nplayers = MinPlayers
    /\ names = PlayerNames(MinPlayers)
    /\ current_phase = [p \in 0..(MinPlayers - 1) |-> 1]
    /\ completed_phase_this_round = [p \in 0..(MinPlayers - 1) |-> p = 0 \/ other_completed]
    /\ completed_phase_cards = [p \in 0..(MinPlayers - 1) |->
           IF completed_phase_this_round[p] THEN LaidSample(p, 1) ELSE <<>>]
    /\ hand = [p \in 0..(MinPlayers - 1) |->
           IF p = 0 THEN held
           ELSE IF other_completed THEN SubSeq(PlainHand("yellow", 2), 3, 5)
           ELSE PlainHand("yellow", 2)]
    /\ score = [p \in 0..(MinPlayers - 1) |-> 0]
    /\ discard_pile = <<LastDiscard>>
    /\ deck = RestOfDeck(hand, completed_phase_cards, discard_pile)
    /\ current_player_index = 0
    /\ round_number = 1
    /\ game_over = FALSE
    /\ winner = NoPlayer
    /\ round_winner = NoPlayer

InitHit ==
    /\ \E held \in HitHands, other_completed \in BOOLEAN : HitState(held, other_completed)
    /\ pc = "hit"
    /\ fn = "none"
    /\ selected_cards = <<>>
    /\ arg = 0
    /\ ret = "None"
    /\ turns = 0

NextHit ==
    \/ Hit
    \/ HitDone
    \/ Discard

SpecHit == InitHit /\ [][NextHit]_vars

(***************************************************************************)
(* The draw step of a turn late in a round: the deck holds three cards or  *)
(* fewer, every card not held by a player lies in the discard pile.        *)
(***************************************************************************)
DeckSamples ==
    { <<>>, <<NumberCard(5, "green", 1)>>, <<NumberCard(5, "green", 1), SkipCard(2)>>,
      <<WildCard(3), NumberCard(5, "green", 1), SkipCard(2)>> }

\* the card on top of the discard pile
TopSamples == {SkipCard(4), NumberCard(8, "red", 1), WildCard(5)}

DrawState(n, in_deck, top, completed) ==
    /\ nplayers = n
    /\ names = PlayerNames(n)
    /\ current_phase = [p \in 0..(n - 1) |-> 1]
    /\ completed_phase_this_round = [p \in 0..(n - 1) |-> p = 0 /\ completed]
    /\ completed_phase_cards = [p \in 0..(n - 1) |->
           IF completed_phase_this_round[p] THEN LaidSample(p, 1) ELSE <<>>]
    /\ hand = [p \in 0..(n - 1) |->
           IF completed_phase_this_round[p] THEN SubSeq(PlainHand(Colors[p + 1], 2), 1, 4)
           ELSE PlainHand(Colors[p + 1], 2)]
    /\ score = [p \in 0..(n - 1) |-> 0]
    /\ deck = in_deck
    /\ discard_pile =
           RestOfDeck(hand, completed_phase_cards, in_deck \o <<top>>) \o <<top>>
    /\ current_player_index = 0
    /\ round_number = 1
    /\ game_over = FALSE
    /\ winner = NoPlayer
    /\ round_winner = NoPlayer

InitDraw ==
    /\ \E n \in MinPlayers..MaxPlayers, in_deck \in DeckSamples, top \in TopSamples,
          completed \in BOOLEAN : DrawState(n, in_deck, top, completed)
    /\ pc = "draw"
    /\ fn = "none"
    /\ selected_cards = <<>>
    /\ arg = 0
    /\ ret = "None"
    /\ turns = 0

NextDraw ==
    \/ DrawFromDeck
    \/ DrawFromDiscard

SpecDraw == InitDraw /\ [][NextDraw]_vars

(***************************************************************************)
(* Phase10Game(player_names) on bounded inputs: lists of names of every    *)
(* length from none to one more than the constructor accepts, with and     *)
(* without a name that occurs twice.  pc = "new" is the point of the call. *)
(***************************************************************************)
MaxNames == 3        \* longest list on which every choice of names is tried

NameInputs == {"Alice", "Bob", "Charlie"}

NameLists ==
    UNION {[1..k -> NameInputs] : k \in 0..MaxNames}
        \cup {PlayerNames(k) : k \in 0..(PlayerLimit + 1)}
        \cup {PlayerNames(k - 1) \o <<"Alice">> : k \in MinPlayers..PlayerLimit}

InitNew ==
    /\ nplayers = 0
    /\ names \in NameLists
    /\ hand = <<>>
    /\ current_phase = <<>>
    /\ completed_phase_this_round = <<>>
    /\ completed_phase_cards = <<>>
    /\ score = <<>>
    /\ deck = <<>>
    /\ discard_pile = <<>>
    /\ current_player_index = 0
    /\ round_number = 1
    /\ game_over = FALSE
    /\ winner = NoPlayer
    /\ round_winner = NoPlayer
    /\ pc = "new"
    /\ fn = "none"
    /\ selected_cards = <<>>
    /\ arg = 0
    /\ ret = "None"
    /\ turns = 0

Mutant_valid_player_count(n) == MinPlayers < n /\ n <= PlayerLimit

\* the test at the head of Phase10Game.__init__
valid_player_count(n) == MinPlayers <= n /\ n <= PlayerLimit

\* Phase10Game.__init__(names): ValueError, or the players, the shuffled deck,
\* the deal and the first card of the discard pile
Phase10Game ==
    /\ pc = "new"
    /\ IF ~valid_player_count(Len(names))
       THEN /\ ret' = "ValueError"
            /\ pc' = "crashed"
            /\ UNCHANGED gameVars
       ELSE LET n == Len(names)
            IN /\ nplayers' = n
               /\ names' = names
               /\ \E d \in ShuffleOutcomes(n) : DealRound(d, n)
               /\ current_phase' = [p \in 0..(n - 1) |-> 1]
               /\ completed_phase_this_round' = [p \in 0..(n - 1) |-> FALSE]
               /\ completed_phase_cards' = [p \in 0..(n - 1) |-> <<>>]
               /\ score' = [p \in 0..(n - 1) |-> 0]
               /\ current_player_index' = 0
               /\ round_number' = 1
               /\ game_over' = FALSE
               /\ winner' = NoPlayer
               /\ round_winner' = NoPlayer
               /\ ret' = "Phase10Game"
               /\ pc' = "draw"
    /\ fn' = "Phase10Game"
    /\ UNCHANGED <<selected_cards, arg, turns>>

NextNew == Phase10Game

SpecNew == InitNew /\ [][NextNew]_vars

(***************************************************************************)
(* Player.hit_on_phase and hit_on_own_phase called on bounded inputs:      *)
(* player 0 hits with the cards of a small hand, or with a card not held,  *)
(* on the cards laid down by player 0 or player 1; each of the two may or  *)
(* may not have completed the phase, and the phase is any of the ten.      *)
(***************************************************************************)
\* the cards a player has laid down for a phase; the cards of the two players
\* are different instances
MeldSample(p, phase_number) ==
    LET size1 == PHASES[phase_number][1][2]
    IN CASE phase_number \in {1, 7, 9, 10} ->
               [i \in 1..size1 |-> NthOfRank(1 + p, i)]
                  \o [i \in 1..PHASES[phase_number][2][2] |-> NthOfRank(7 + p, i)]
         [] phase_number \in {2, 3} ->
               [i \in 1..size1 |-> NthOfRank(9 + p, i)]
                  \o [i \in 1..PHASES[phase_number][2][2] |->
                         NumberCard(2 + i, Colors[3 + p], 1)]
         [] phase_number \in {4, 5, 6} ->
               IF p = 0 THEN [i \in 1..size1 |-> NumberCard(3 + i, "red", 1)]
               ELSE [i \in 1..size1 |->
                        IF i = 3 THEN WildCard(2) ELSE NumberCard(3 + i, "blue", 1)]
         [] OTHER ->
               IF p = 0 THEN [i \in 1..size1 |-> NumberCard(2 + i, "red", 1)]
               ELSE << NumberCard(3, "blue", 1), NumberCard(3, "green", 1),
                       NumberCard(4, "blue", 1), NumberCard(4, "green", 1),
                       NumberCard(5, "yellow", 1), NumberCard(10, "red", 1),
                       WildCard(2) >>

\* what player 0 holds
HitCallHands ==
    { << NumberCard(3, "blue", 2), NumberCard(2, "blue", 2),
         NumberCard(1, "blue", 2), WildCard(1) >>,
      << NumberCard(7, "yellow", 2), NumberCard(12, "red", 2),
         NumberCard(12, "blue", 2), NumberCard(12, "green", 2), SkipCard(1) >> }

\* a card player 0 does not hold, of a kind every meld takes
HitNotHeld == WildCard(8)

HitCallState(phase_number, held, completed) ==
    /\ nplayers = MinPlayers
    /\ names = PlayerNames(MinPlayers)
    /\ current_phase = [p \in 0..(MinPlayers - 1) |-> phase_number]
    /\ completed_phase_this_round = completed
    /\ completed_phase_cards = [p \in 0..(MinPlayers - 1) |->
           IF completed[p] THEN MeldSample(p, phase_number) ELSE <<>>]
    /\ hand = [p \in 0..(MinPlayers - 1) |->
           IF p = 0 THEN held ELSE SubSeq(PlainHand("yellow", 2), 8, 10)]
    /\ score = [p \in 0..(MinPlayers - 1) |-> 0]
    /\ discard_pile = <<SkipCard(4)>>
    /\ deck = RestOfDeck(hand, completed_phase_cards, discard_pile)
    /\ current_player_index = 0
    /\ round_number = phase_number
    /\ game_over = FALSE
    /\ winner = NoPlayer
    /\ round_winner = NoPlayer

InitHitCall ==
    /\ \E phase_number \in PhaseNumbers, held \in HitCallHands,
          completed \in [0..(MinPlayers - 1) -> BOOLEAN] :
          HitCallState(phase_number, held, completed)
    /\ pc = "call"
    /\ fn = "none"
    /\ selected_cards = <<>>
    /\ arg = 0
    /\ ret = "None"
    /\ turns = 0

\* player.hit_on_phase(card, target_player) for another player,
\* player.hit_on_own_phase(card) for the player; selected_cards and arg keep
\* the card and the target of the call
CallHitOnPhase ==
    /\ pc = "call"
    /\ \E target_player \in Players, card \in Range(hand[player]) \cup {HitNotHeld} :
          LET r == hit_on_phase(player, card, target_player)
          IN /\ ret' = r[1]
             /\ hand' = [hand EXCEPT ![player] = r[2]]
             /\ completed_phase_cards' =
                    [completed_phase_cards EXCEPT ![target_player] = r[3]]
             /\ selected_cards' = <<card>>
             /\ arg' = target_player
    /\ fn' = "hit_on_phase"
    /\ UNCHANGED <<nplayers, names, current_phase, completed_phase_this_round, score,
                   deck, discard_pile, current_player_index, round_number, game_over,
                   winner, round_winner, pc, turns>>

NextHitCall == CallHitOnPhase

SpecHitCall == InitHitCall /\ [][NextHitCall]_vars

(***************************************************************************)
(* Phase10Game.discard_card called on bounded inputs: player 0 discards    *)
(* cards of a small hand, in which two cards may have the same rank and    *)
(* colour, or a card the player does not hold.                             *)
(***************************************************************************)
DiscardHands ==
    { << NumberCard(5, "red", 1), SkipCard(1), WildCard(1), NumberCard(9, "green", 1) >>,
      << NumberCard(5, "red", 1), NumberCard(5, "red", 2), NumberCard(8, "blue", 1) >> }

\* cards handed to discard_card besides those of the hand
DiscardInputs == {NumberCard(5, "red", 2), NumberCard(8, "blue", 2)}

InitDiscardCall ==
    /\ \E held \in DiscardHands, other_completed \in BOOLEAN :
          HitState(held, other_completed)
    /\ pc = "call"
    /\ fn = "none"
    /\ selected_cards = <<>>
    /\ arg = 0
    /\ ret = "None"
    /\ turns = 0

\* game.discard_card(player, card); selected_cards keeps the card of the call
CallDiscardCard ==
    /\ pc = "call"
    /\ \E card \in Range(hand[player]) \cup DiscardInputs :
          LET r == discard_card(player, card)
          IN /\ ret' = r[1]
             /\ hand' = [hand EXCEPT ![player] = r[2]]
             /\ discard_pile' = r[3]
             /\ selected_cards' = <<card>>
    /\ fn' = "discard_card"
    /\ UNCHANGED <<nplayers, names, current_phase, completed_phase_this_round,
                   completed_phase_cards, score, deck, current_player_index,
                   round_number, game_over, winner, round_winner, pc, arg, turns>>

NextDiscardCall == CallDiscardCard

SpecDiscardCall == InitDiscardCall /\ [][NextDiscardCall]_vars

(***************************************************************************)
(* Phase10Game.reshuffle_if_needed called on bounded inputs, as the test   *)
(* of deck reshuffling does: the deck is empty or holds one card, the      *)
(* discard pile holds a few cards put there one after the other.           *)
(***************************************************************************)
MaxPile == 3         \* most cards of the discard pile when the method is called

PileCards ==
    {NumberCard(1, "red", 1), NumberCard(2, "red", 1), SkipCard(3), WildCard(4)}

PileSamples ==
    {pile \in UNION {[1..k -> PileCards] : k \in 0..MaxPile} :
        \A i, j \in 1..Len(pile) : i # j => pile[i] # pile[j]}

\* random.shuffle: every order of the cards
Shuffles(cards) ==
    LET n == Len(cards)
        orders == {f \in [1..n -> 1..n] : \A i, j \in 1..n : i # j => f[i] # f[j]}
    IN {[i \in 1..n |-> cards[f[i]]] : f \in orders}

\* the cards below the top of the pile, in the order the loop appends them
TakenFromPile(pile) == [i \in 1..(Len(pile) - 1) |-> pile[Len(pile) - i]]

Mutant_reshuffle_if_needed ==
    IF deck = <<>> /\ Len(discard_pile) > 1
    THEN {<<d, <<discard_pile[1]>>>> : d \in Shuffles(Tail(discard_pile))}
    ELSE {<<deck, discard_pile>>}

\* Phase10Game.reshuffle_if_needed: the pairs <<deck, discard pile>> it may leave
reshuffle_if_needed ==
    IF deck = <<>> /\ Len(discard_pile) > 1
    THEN {<<d, <<discard_pile[Len(discard_pile)]>>>> :
             d \in Shuffles(deck \o TakenFromPile(discard_pile))}
    ELSE {<<deck, discard_pile>>}

InitReshuffle ==
    /\ nplayers = MinPlayers
    /\ names = PlayerNames(MinPlayers)
    /\ current_phase = [p \in 0..(MinPlayers - 1) |-> 1]
    /\ completed_phase_this_round = [p \in 0..(MinPlayers - 1) |-> FALSE]
    /\ completed_phase_cards = [p \in 0..(MinPlayers - 1) |-> <<>>]
    /\ hand = [p \in 0..(MinPlayers - 1) |-> PlainHand(Colors[p + 2], 2)]
    /\ score = [p \in 0..(MinPlayers - 1) |-> 0]
    /\ deck \in {<<>>, <<NumberCard(3, "red", 1)>>}
    /\ discard_pile \in PileSamples
    /\ current_player_index = 0
    /\ round_number = 1
    /\ game_over = FALSE
    /\ winner = NoPlayer
    /\ round_winner = NoPlayer
    /\ pc = "call"
    /\ fn = "none"
    /\ selected_cards = <<>>
    /\ arg = 0
    /\ ret = "None"
    /\ turns = 0

\* game.reshuffle_if_needed()
CallReshuffleIfNeeded ==
    /\ pc = "call"
    /\ fn = "none"
    /\ \E r \in reshuffle_if_needed :
          /\ deck' = r[1]
          /\ discard_pile' = r[2]
    /\ fn' = "reshuffle_if_needed"
    /\ ret' = "None"
    /\ UNCHANGED <<nplayers, names, hand, current_phase, completed_phase_this_round,
                   completed_phase_cards, score, current_player_index, round_number,
                   game_over, winner, round_winner, pc, selected_cards, arg, turns>>

NextReshuffle == CallReshuffleIfNeeded

SpecReshuffle == InitReshuffle /\ [][NextReshuffle]_vars

(***************************************************************************)
(* A Deck on its own: Deck() builds and shuffles the 108 cards, draw_card  *)
(* pops the last card or returns None.  selected_cards holds the card the  *)
(* last draw returned.                                                     *)
(***************************************************************************)
\* Deck.shuffle on the cards of _create_deck: the order they were made in, or
\* one of the stacked orders
ShuffledDecks == {_create_deck} \cup UNION {StackedDecks[n] : n \in DOMAIN StackedDecks}

InitDeck ==
    /\ NoGame
    /\ pc = "deck"
    /\ fn = "none"
    /\ selected_cards = <<>>
    /\ arg = 0
    /\ ret = "None"

\* Deck.__init__: _create_deck, then shuffle
CallDeck ==
    /\ pc = "deck"
    /\ deck' \in ShuffledDecks
    /\ fn' = "Deck"
    /\ ret' = "None"
    /\ selected_cards' = <<>>
    /\ UNCHANGED <<nplayers, names, hand, current_phase, completed_phase_this_round,
                   completed_phase_cards, score, discard_pile, current_player_index,
                   round_number, game_over, winner, round_winner, pc, arg, turns>>

\* Deck.draw_card on a constructed deck
CallDrawCard ==
    /\ pc = "deck"
    /\ fn # "none"
    /\ IF Len(deck) = 0
       THEN /\ ret' = "None"
            /\ selected_cards' = <<>>
            /\ UNCHANGED deck
       ELSE /\ ret' = "Card"
            /\ selected_cards' = <<deck[Len(deck)]>>
            /\ deck' = SubSeq(deck, 1, Len(deck) - 1)
    /\ fn' = "draw_card"
    /\ UNCHANGED <<nplayers, names, hand, current_phase, completed_phase_this_round,
                   completed_phase_cards, score, discard_pile, current_player_index,
                   round_number, game_over, winner, round_winner, pc, arg, turns>>

NextDeck == CallDeck \/ CallDrawCard

SpecDeck == InitDeck /\ [][NextDeck]_vars

(***************************************************************************)
(* game_states.py: a game written to a file and read back.  A card is      *)
(* written as its rank, color and card type; reading makes a new Card      *)
(* object for every card written.  An absent value (None, null in the      *)
(* file) is the empty list, a present one a list of one element.           *)
(***************************************************************************)
_serialize_card(card) ==
    [rank |-> rank(card), color |-> color(card), card_type |-> card_type(card)]

SerializeCards(cards) == [i \in 1..Len(cards) |-> _serialize_card(cards[i])]

Mutant_serialize_player(p) ==
    [name |-> names[p + 1],
     hand |-> SerializeCards(hand[p]),
     current_phase |-> current_phase[p],
     completed_phase_this_round |-> completed_phase_this_round[p],
     completed_phase_cards |-> SerializeCards(completed_phase_cards[p]),
     score |-> 0]

_serialize_player(p) ==
    [name |-> names[p + 1],
     hand |-> SerializeCards(hand[p]),
     current_phase |-> current_phase[p],
     completed_phase_this_round |-> completed_phase_this_round[p],
     completed_phase_cards |-> SerializeCards(completed_phase_cards[p]),
     score |-> score[p]]

_serialize_game ==
    [players |-> [i \in 1..nplayers |-> _serialize_player(i - 1)],
     deck |-> [cards |-> SerializeCards(deck)],
     discard_pile |-> [cards |-> SerializeCards(discard_pile)],
     state |-> [round_number |-> round_number,
                current_player_index |-> current_player_index,
                game_over |-> game_over,
                winner_name |-> IF winner = NoPlayer THEN <<>>
                                ELSE <<names[winner + 1]>>]]

\* the Card objects of one rank, color and type
CardObjects ==
    [data \in {_serialize_card(c) : c \in Range(_create_deck)} |->
        LET Same(c) == _serialize_card(c) = data
        IN SelectSeq(_create_deck, Same)]

\* _deserialize_card: a new Card object, the k-th one made from these data
_deserialize_card(data, k) == CardObjects[data][k]

RECURSIVE DeserializeCards(_, _, _)
\* the objects made from the list datas, from position i on; made counts the
\* objects made before, by rank, color and type
DeserializeCards(datas, i, made) ==
    IF i > Len(datas) THEN <<>>
    ELSE <<_deserialize_card(datas[i], made[datas[i]] + 1)>>
            \o DeserializeCards(datas, i + 1, [made EXCEPT ![datas[i]] = @ + 1])

\* the cards of the file in the order _deserialize_game reads them: for each
\* player the hand and then the laid cards, then the deck, then the discard pile
RECURSIVE PlayerCardData(_, _)
PlayerCardData(players, n) ==
    IF n = 0 THEN <<>>
    ELSE PlayerCardData(players, n - 1)
            \o players[n].hand \o players[n].completed_phase_cards

\* _deserialize_game: the fields of the game it returns.  The test "if
\* state_data['winner_name']:" is false for None and for the empty string
\* (setup_game in main.py never makes an empty name).
_deserialize_game(data) ==
    LET n == Len(data.players)
        in_file == PlayerCardData(data.players, n)
                      \o data.deck.cards \o data.discard_pile.cards
        objects == DeserializeCards(in_file, 1, [d \in DOMAIN CardObjects |-> 0])
        Part(start, length) == SubSeq(objects, start + 1, start + length)
        hand_at(i) == Len(PlayerCardData(data.players, i - 1))
        laid_at(i) == hand_at(i) + Len(data.players[i].hand)
        deck_at == Len(PlayerCardData(data.players, n))
        named == {i \in 1..n : data.state.winner_name = <<data.players[i].name>>}
    IN [nplayers |-> n,
        names |-> [i \in 1..n |-> data.players[i].name],
        hand |-> [p \in 0..(n - 1) |->
                     Part(hand_at(p + 1), Len(data.players[p + 1].hand))],
        current_phase |-> [p \in 0..(n - 1) |-> data.players[p + 1].current_phase],
        completed_phase_this_round |->
            [p \in 0..(n - 1) |-> data.players[p + 1].completed_phase_this_round],
        completed_phase_cards |-> [p \in 0..(n - 1) |->
            Part(laid_at(p + 1), Len(data.players[p + 1].completed_phase_cards))],
        score |-> [p \in 0..(n - 1) |-> data.players[p + 1].score],
        deck |-> Part(deck_at, Len(data.deck.cards)),
        discard_pile |-> Part(deck_at + Len(data.deck.cards),
                              Len(data.discard_pile.cards)),
        round_number |-> data.state.round_number,
        current_player_index |-> data.state.current_player_index,
        game_over |-> data.state.game_over,
        winner |-> IF /\ data.state.winner_name # <<>>
                      /\ data.state.winner_name[1] # ""
                      /\ named # {}
                   THEN (CHOOSE i \in named : \A j \in named : i <= j) - 1
                   ELSE NoPlayer]

\* Phase10Game.get_game_status
get_game_status ==
    [round |-> round_number,
     current_player |-> names[current_player_index + 1],
     current_player_index |-> current_player_index,
     players |-> [i \in 1..nplayers |->
                     [name |-> names[i],
                      phase |-> current_phase[i - 1],
                      hand_size |-> Len(hand[i - 1]),
                      score |-> score[i - 1],
                      completed_phase |-> completed_phase_this_round[i - 1]]],
     discard_top |-> IF discard_pile = <<>> THEN <<>>
                     ELSE <<discard_pile[Len(discard_pile)]>>,
     deck_size |-> Len(deck),
     game_over |-> game_over,
     winner |-> IF winner = NoPlayer THEN <<>> ELSE <<names[winner + 1]>>]

\* save_game_state, then load_game_state of the file just written: the game
\* is replaced by _deserialize_game(_serialize_game(game))
LoadSavedGame ==
    /\ \E game \in {_deserialize_game(_serialize_game)} :
          /\ nplayers' = game.nplayers
          /\ names' = game.names
          /\ hand' = game.hand
          /\ current_phase' = game.current_phase
          /\ completed_phase_this_round' = game.completed_phase_this_round
          /\ completed_phase_cards' = game.completed_phase_cards
          /\ score' = game.score
          /\ deck' = game.deck
          /\ discard_pile' = game.discard_pile
          /\ round_number' = game.round_number
          /\ current_player_index' = game.current_player_index
          /\ game_over' = game.game_over
          /\ winner' = game.winner
    /\ fn' = "load_game_state"
    /\ ret' = "Phase10Game"
    /\ UNCHANGED <<round_winner, pc, selected_cards, arg, turns>>

\* games to save: two players at the end of a round, or any number of players
\* when check_game_end is due
InitSave == (InitRound /\ nplayers = MinPlayers) \/ InitGameEnd

NextSave ==
    \/ EndRound
    \/ CheckGameEnd
    \/ StartNewRound
    \/ LoadSavedGame

SpecSave == InitSave /\ [][NextSave]_vars

(***************************************************************************)
(* Claims about the validators (checked under SpecValidate)                *)
(***************************************************************************)
Distinct(cards) == \A i, j \in 1..Len(cards) : cards[i] = cards[j] => i = j

WildCount(cards) == Len(SelectSeq(cards, IsWild))
NonWildAt(cards) == {i \in 1..Len(cards) : NotWild(cards[i])}

\* one clause of a phase accepts a group of cards
Accepts(req, cards) ==
    CASE req[1] = "set" -> is_valid_set(cards, req[2])
      [] req[1] = "run" -> is_valid_run(cards, req[2]) = "True"
      [] req[1] = "color" -> is_valid_color_requirement(cards, req[2])

\* the all-partitions reference of validate_phase
PhaseReference(cards, p) ==
    LET reqs == PHASES[p]
        all == 1..Len(cards)
    IN IF Len(reqs) = 1
       THEN Len(cards) = reqs[1][2] /\ Accepts(reqs[1], cards)
       ELSE /\ Len(cards) = reqs[1][2] + reqs[2][2]
            /\ \E idx \in SUBSET all :
                  /\ Cardinality(idx) = reqs[1][2]
                  /\ Accepts(reqs[1], SubSeqAt(cards, idx, 1))
                  /\ Accepts(reqs[2], SubSeqAt(cards, all \ idx, 1))

\* C1: for every phase and every selection of distinct card instances,
\* validate_phase returns true exactly when the selection has the phase's total
\* size and the single clause accepts it or some split into the two groups makes
\* both clauses accept.
C1_ValidatePhaseMatchesReference ==
    (fn = "validate_phase" /\ Distinct(selected_cards))
        => ((ret = "True") <=> PhaseReference(selected_cards, arg))

ColorReference(cards, n) ==
    /\ Len(cards) = n
    /\ NonWildAt(cards) # {}
    /\ \E col \in Range(Colors) :
          Cardinality({i \in NonWildAt(cards) : color(cards[i]) = col})
              + WildCount(cards) >= n

\* C2: is_valid_color_requirement(cards, n) is true iff |cards| = n, not every
\* card is a Wild, and one color's non-Wild cards plus the Wilds reach n.
C2_ColorRequirementMatchesReference ==
    fn = "is_valid_color_requirement"
        => ((ret = "True") <=> ColorReference(selected_cards, arg))

SetReference(cards, n) ==
    /\ Len(cards) = n
    /\ n >= 1
    /\ NonWildAt(cards) # {}
    /\ \E r \in 1..NumRanks : \A i \in NonWildAt(cards) : rank(cards[i]) = r

\* C3: is_valid_set(cards, n) is true iff |cards| = n, n >= 1, not all cards are
\* Wild, and every non-Wild card shares one rank (one of the ranks 1..12).
C3_SetMatchesReference ==
    fn = "is_valid_set" => ((ret = "True") <=> SetReference(selected_cards, arg))

RunReference(cards, n) ==
    /\ Len(cards) = n
    /\ NonWildAt(cards) # {}
    /\ \E s \in 1..(NumRanks - n + 1) :
          /\ \A i \in NonWildAt(cards) : rank(cards[i]) \in s..(s + n - 1)
          /\ \A i, j \in NonWildAt(cards) : rank(cards[i]) = rank(cards[j]) => i = j
          /\ Cardinality({q \in s..(s + n - 1) :
                             \A i \in NonWildAt(cards) : rank(cards[i]) # q})
                 <= WildCount(cards)

\* C4: is_valid_run(cards, n) returns true iff |cards| = n, some card is not a
\* Wild, and a window [s, s+n-1] with 1 <= s <= 12-n+1 holds every non-Wild rank,
\* no rank twice, with at most as many uncovered positions as there are Wilds.
C4_RunMatchesReference ==
    fn = "is_valid_run" => ((ret = "True") <=> RunReference(selected_cards, arg))

\* C4 witness: a run of at least 7 cards with a Wild in it was accepted
C4_Witness ==
    /\ fn = "is_valid_run"
    /\ ret = "True"
    /\ Len(selected_cards) >= 7
    /\ WildCount(selected_cards) >= 1

(***************************************************************************)
(* Round end and game end                                                  *)
(***************************************************************************)
\* C5: at end_round every player whose completed_phase_this_round flag is set
\* moves to current_phase + 1, for every current phase 1 through 10 (a player who
\* completed phase 10 moves to 11).
C5_CompletedPhaseAdvances ==
    [][pc = "end_round" /\ pc' = "check_game_end" =>
          \A p \in Players :
              completed_phase_this_round[p] /\ current_phase[p] \in 1..10
                  => current_phase'[p] = current_phase[p] + 1]_vars

\* C6: once a round ends with exactly one player having completed phase 10,
\* check_game_end returns true, game_over is set, that player is the winner and
\* play_game leaves its loop: no further round is started.
CompletesPhaseTen(p) == completed_phase_this_round[p] /\ current_phase[p] = 10

C6_GameEndsAfterPhaseTen ==
    \A p \in 0..(MaxPlayers - 1) :
        []((/\ pc = "end_round"
            /\ p \in Players
            /\ CompletesPhaseTen(p)
            /\ \A q \in Players \ {p} : ~CompletesPhaseTen(q))
              => /\ <>(game_over /\ winner = p /\ pc = "finished")
                 /\ [](pc # "next_round" /\ round_number = 1))

\* C7: check_game_end with two or more players beyond phase 10 makes the one with
\* the highest score the winner, the first in player order among equal scores;
\* with no such player it returns false, game_over stays false and no winner is set.
C7_CheckGameEndPicksHighestScore ==
    [][pc = "check_game_end" /\ pc' # pc =>
          LET finished == {p \in Players : current_phase[p] > 10}
          IN /\ Cardinality(finished) >= 2 =>
                   /\ ret' = "True"
                   /\ game_over'
                   /\ winner' \in finished
                   /\ \A q \in finished :
                         /\ score[q] <= score[winner']
                         /\ score[q] = score[winner'] => winner' <= q
             /\ finished = {} =>
                   /\ ret' = "False"
                   /\ game_over' = FALSE
                   /\ winner' = NoPlayer]_vars

C7_Witness ==
    /\ fn = "check_game_end"
    /\ ret = "True"
    /\ nplayers = 3
    /\ \A p \in Players : current_phase[p] > 10
    /\ score[0] = 280 /\ score[1] = 300 /\ score[2] = 300
    /\ winner = 1

\* C10: end_round returns the player whose hand is empty and adds to that
\* player's score exactly the points of the cards left in the other hands
\* (Wild 25, Skip 15, rank 10 or more 10, any other card 5).
PointValue(c) ==
    IF c \in Range([k \in 1..NumWildCards |-> WildCard(k)]) THEN 25
    ELSE IF c \in Range([k \in 1..NumSkipCards |-> SkipCard(k)]) THEN 15
    ELSE IF rank(c) >= 10 THEN 10
    ELSE 5

PointsHeldByOthers(w) ==
    SumSeq([i \in 1..nplayers |->
              IF i - 1 = w THEN 0
              ELSE SumSeq([j \in 1..Len(hand[i - 1]) |-> PointValue(hand[i - 1][j])])])

C10_EndRoundScoresWinner ==
    [][pc = "end_round" /\ pc' # pc =>
          \E w \in Players :
              /\ Len(hand[w]) = 0
              /\ round_winner' = w
              /\ ret' = "Player"
              /\ score'[w] = score[w] + PointsHeldByOthers(w)]_vars

C10_Witness ==
    /\ fn = "end_round"
    /\ nplayers = 3
    /\ round_winner = 1
    /\ Len(hand[0]) = 5
    /\ Len(hand[2]) = 1
    /\ score[1] = 50 + 65 + 5

(***************************************************************************)
(* Turn order                                                              *)
(***************************************************************************)
DiscardsSkip ==
    /\ pc = "discard"
    /\ Len(discard_pile') = Len(discard_pile) + 1
    /\ card_type(discard_pile'[Len(discard_pile')]) = "skip"

DiscardsOther ==
    /\ pc = "discard"
    /\ Len(discard_pile') = Len(discard_pile) + 1
    /\ card_type(discard_pile'[Len(discard_pile')]) # "skip"

\* C8: after a Skip is discarded the current player index stays where it is in a
\* game of two players (skip_count 0) and moves on by 2 modulo the number of
\* players in a game of three to six.
C8_SkipDiscardTurnOrder ==
    [][DiscardsSkip =>
          /\ nplayers = 2 => arg' = 0 /\ current_player_index' = current_player_index
          /\ nplayers >= 3 =>
                current_player_index' = (current_player_index + 2) % nplayers]_vars

C8_Witness ==
    /\ fn = "discard_card"
    /\ nplayers = 3
    /\ turns = 1
    /\ arg = 2
    /\ card_type(discard_pile[Len(discard_pile)]) = "skip"
    /\ current_player_index = 2

\* C9: after a discard that is not a Skip the current player index moves on by
\* exactly 1 modulo the number of players, and the index is within
\* 0..(number of players - 1) in every reachable state.
C9_DiscardAdvancesByOne ==
    /\ [](current_player_index \in 0..(nplayers - 1))
    /\ [][DiscardsOther =>
             current_player_index' = (current_player_index + 1) % nplayers]_vars

C9_Witness ==
    /\ fn = "discard_card"
    /\ arg = 1
    /\ nplayers = 3
    /\ turns = 2
    /\ card_type(discard_pile[Len(discard_pile)]) # "skip"
    /\ current_player_index = 0

(***************************************************************************)
(* Claims about Player.complete_phase (checked under SpecAttempt)          *)
(***************************************************************************)
Count(s, c) == Cardinality({i \in 1..Len(s) : s[i] = c})

SameCards(a, b) == \A c \in Range(a) \cup Range(b) : Count(a, c) = Count(b, c)

CompletePhaseReturns(value) == pc = "call" /\ fn' = "complete_phase" /\ ret' = value

\* C11: whenever complete_phase returns False, the player's hand holds the same
\* cards as before the call (as a multiset) and completed_phase_this_round and
\* completed_phase_cards are what they were.
C11_FailedCompletionChangesNothing ==
    [][CompletePhaseReturns("False") =>
          /\ SameCards(hand'[player], hand[player])
          /\ completed_phase_this_round'[player] = completed_phase_this_round[player]
          /\ completed_phase_cards'[player] = completed_phase_cards[player]]_vars

\* C12: every phase attempt ends with an answer of True or False, never with an
\* exception, whatever cards the selection holds and whatever the phase.
C12_AttemptNeverRaises ==
    /\ pc # "crashed"
    /\ fn = "complete_phase" => ret \in {"True", "False"}

\* C20: complete_phase answers True only for a player who has not completed a
\* phase this round and a selection that validate_phase accepts for the player's
\* phase; then the flag is set, completed_phase_cards is the selection and the
\* hand has lost exactly the selected cards.
C20_CompletionOnlyWhenAllowed ==
    [][CompletePhaseReturns("True") =>
          /\ ~completed_phase_this_round[player]
          /\ validate_phase(selected_cards, current_phase[player]) = "True"
          /\ completed_phase_this_round'[player]
          /\ completed_phase_cards'[player] = selected_cards
          /\ \A c \in Range(hand[player]) :
                Count(hand'[player], c) = Count(hand[player], c) - Count(selected_cards, c)
          /\ Range(selected_cards) \subseteq Range(hand[player])]_vars

C20_Witness ==
    /\ pc = "returned"
    /\ ret = "True"
    /\ current_phase[0] = 2
    /\ completed_phase_this_round[0]
    /\ completed_phase_cards[0] = selected_cards
    /\ Len(hand[0]) = Len(AttemptHand) - Len(selected_cards)

(***************************************************************************)
(* Claims about the hitting and discard steps (checked under SpecHit)      *)
(***************************************************************************)
\* C13: a hand becomes empty only by a discard of the player who holds it, the
\* current player; no other step (a hit, a completed phase) takes the last card.
C13_HandEmptiesOnlyByDiscard ==
    [][\A p \in Players :
          (hand[p] # <<>> /\ hand'[p] = <<>>) =>
              (pc = "discard" /\ fn' = "discard_card" /\ p = current_player_index)]_vars

\* C14: whenever the current player has to discard, the player holds a card to
\* discard, so that the turn can end with its one discard.
C14_DiscardAlwaysPossible ==
    pc = "discard" => hand[current_player_index] # <<>>

(***************************************************************************)
(* Claims about the draw step (checked under SpecDraw and Spec)            *)
(***************************************************************************)
\* C15: a draw step that starts with an empty deck and more than one card in
\* the discard pile still puts a card in the hand of the player who draws (the
\* pile below its top card having been shuffled into the deck first).
C15_EmptyDeckIsReplenished ==
    [][(pc = "draw" /\ fn' = "player_draw_card"
           /\ deck = <<>> /\ Len(discard_pile) > 1) =>
          Len(hand'[player]) = Len(hand[player]) + 1]_vars

TopIsSkip ==
    discard_pile # <<>> /\ card_type(discard_pile[Len(discard_pile)]) = "skip"

\* C16: no draw takes a Skip off the discard pile: a draw step that shortens the
\* pile removes a card that is not a Skip, and while a Skip lies on top a draw
\* step leaves the pile as it is and adds at most the top card of the deck to
\* the hand.
C16_SkipNeverDrawnFromDiscard ==
    [][pc = "draw" =>
          /\ Len(discard_pile') < Len(discard_pile) =>
                card_type(discard_pile[Len(discard_pile)]) # "skip"
          /\ TopIsSkip =>
                /\ discard_pile' = discard_pile
                /\ \/ hand' = hand
                   \/ /\ deck # <<>>
                      /\ hand' = [hand EXCEPT ![player] = Append(@, deck[Len(deck)])]]_vars

C16_Witness ==
    /\ fn = "player_draw_card"
    /\ ret = "Card"
    /\ TopIsSkip
    /\ Len(hand[0]) = HandSize + 1
    /\ card_type(hand[0][HandSize + 1]) = "skip"

(***************************************************************************)
(* Claims about the construction of a game (checked under SpecNew)         *)
(***************************************************************************)
\* C17: Phase10Game with fewer than 2 or more than 6 names fails and creates no
\* game; with 2 to 6 names it succeeds and the game has one player per name.
C17_PlayerCountChecked ==
    [][pc = "new" =>
          IF Len(names) >= 2 /\ Len(names) <= 6
          THEN /\ ret' = "Phase10Game"
               /\ nplayers' = Len(names)
               /\ pc' = "draw"
          ELSE /\ ret' = "ValueError"
               /\ nplayers' = 0
               /\ hand' = <<>> /\ deck' = <<>> /\ discard_pile' = <<>>]_vars

C17_Witness ==
    /\ fn = "Phase10Game"
    /\ ret = "ValueError"
    /\ Len(names) = 7
    /\ nplayers = 0

\* C18: the names of the players of a game are pairwise different (a list with
\* a name twice is refused, so no game with two players of one name exists).
C18_NamesUnique ==
    nplayers > 0 => \A i, j \in 1..Len(names) : i # j => names[i] # names[j]

\* C19: right after construction with n players every player holds 10 cards,
\* is on phase 1 with score 0 and no completed phase, the discard pile holds 1
\* card, the deck 107 - 10n, the round is 1, the game is not over and the first
\* player is the current player.
C19_FreshGame ==
    (fn = "Phase10Game" /\ ret = "Phase10Game") =>
        /\ nplayers = Len(names)
        /\ \A p \in Players :
              /\ Len(hand[p]) = 10
              /\ current_phase[p] = 1
              /\ score[p] = 0
              /\ ~completed_phase_this_round[p]
              /\ completed_phase_cards[p] = <<>>
        /\ Len(discard_pile) = 1
        /\ Len(deck) = 107 - 10 * nplayers
        /\ round_number = 1
        /\ ~game_over
        /\ current_player_index = 0

C19_Witness ==
    /\ fn = "Phase10Game"
    /\ ret = "Phase10Game"
    /\ names = PlayerNames(6)
    /\ nplayers = 6
    /\ Len(deck) = 47
    /\ Len(hand[5]) = 10

(***************************************************************************)
(* Claims about hits (checked under SpecHitCall and Spec).  In a step of   *)
(* CallHitOnPhase the card is selected_cards'[1] and the target is arg'.   *)
(***************************************************************************)
HitCalled == pc = "call" /\ fn' = "hit_on_phase"

\* a hit the two players' flags permit, with a card the player holds
HitPermitted ==
    /\ HitCalled
    /\ completed_phase_this_round[player]
    /\ completed_phase_this_round[arg']
    /\ selected_cards'[1] \in Range(hand[player])

LaidRanks(t) ==
    {rank(completed_phase_cards[t][i]) :
        i \in {j \in 1..Len(completed_phase_cards[t]) :
                  card_type(completed_phase_cards[t][j]) = "number"}}

Lowest(S) == CHOOSE m \in S : \A x \in S : m <= x

Highest(S) == CHOOSE m \in S : \A x \in S : m >= x

\* C21: a hit succeeds only when the hitting player and the target player have
\* both completed their phase this round; a player who has not completed the
\* phase adds no card to any laid meld, and no card is added to the cards of a
\* player who has not completed the phase.
C21_HitNeedsBothCompleted ==
    [][HitCalled =>
          /\ ret' = "True" =>
                completed_phase_this_round[player] /\ completed_phase_this_round[arg']
          /\ ~completed_phase_this_round[player] =>
                completed_phase_cards' = completed_phase_cards
          /\ \A t \in Players :
                ~completed_phase_this_round[t] =>
                    completed_phase_cards'[t] = completed_phase_cards[t]]_vars

C21_Witness ==
    /\ fn = "hit_on_phase"
    /\ ret = "False"
    /\ ~completed_phase_this_round[0]
    /\ completed_phase_this_round[1]
    /\ arg = 1
    /\ card_type(selected_cards[1]) = "wild"
    /\ selected_cards[1] \in Range(hand[0])

\* C22: on a target in a run phase (4, 5, 6) a Number card is accepted exactly
\* when its rank is one less than the lowest or one more than the highest
\* Number rank laid; a Wild is always accepted.
C22_RunHitExtendsAnEnd ==
    [][(HitPermitted /\ current_phase[arg'] \in {4, 5, 6}) =>
          LET card == selected_cards'[1]
              laid == LaidRanks(arg')
          IN /\ card_type(card) = "wild" => ret' = "True"
             /\ card_type(card) = "number" =>
                   (ret' = "True" <=>
                       \/ rank(card) = Lowest(laid) - 1
                       \/ rank(card) = Highest(laid) + 1)]_vars

C22_Witness ==
    /\ fn = "hit_on_phase"
    /\ ret = "True"
    /\ arg = 0
    /\ current_phase[0] = 5
    /\ rank(selected_cards[1]) = 12
    /\ Len(completed_phase_cards[0]) = 9
    /\ completed_phase_cards[0][9] = selected_cards[1]

\* C23: the cards laid down by a player in a run phase (4, 5, 6) form a valid
\* run of their current length in every reachable state of the round, whatever
\* hits were made on them.
C23_RunStaysValid ==
    \A t \in Players :
        (completed_phase_this_round[t] /\ current_phase[t] \in {4, 5, 6}) =>
            is_valid_run(completed_phase_cards[t], Len(completed_phase_cards[t])) = "True"

\* C24: on a target in a phase of two sets (1, 7, 9, 10) a Number card is
\* accepted exactly when its rank is the rank of a Number card already laid; a
\* Wild is always accepted.
C24_SetHitMatchesLaidRank ==
    [][(HitPermitted /\ current_phase[arg'] \in {1, 7, 9, 10}) =>
          LET card == selected_cards'[1]
          IN /\ card_type(card) = "wild" => ret' = "True"
             /\ card_type(card) = "number" =>
                   (ret' = "True" <=> rank(card) \in LaidRanks(arg'))]_vars

C24_Witness ==
    /\ fn = "hit_on_phase"
    /\ ret = "True"
    /\ arg = 1
    /\ current_phase[1] = 7
    /\ card_type(selected_cards[1]) = "number"
    /\ rank(selected_cards[1]) = 2
    /\ completed_phase_cards[1][Len(completed_phase_cards[1])] = selected_cards[1]

LaidColorCount(t, col) ==
    Cardinality({i \in 1..Len(completed_phase_cards[t]) :
                    /\ card_type(completed_phase_cards[t][i]) = "number"
                    /\ color(completed_phase_cards[t][i]) = col})

\* the colours with the highest count among the Number cards laid
TopColors(t) ==
    {col \in Range(Colors) :
        \A other \in Range(Colors) : LaidColorCount(t, other) <= LaidColorCount(t, col)}

\* C25: on a target in the colour phase (8) a Number card is accepted only if
\* its colour has the highest count among the Number cards laid, and exactly
\* when its colour is that colour if a single colour has the highest count; on
\* a tie at most one of the tied colours is taken, the same until a hit breaks
\* the tie in its favour; a Wild is always accepted.
C25_ColorHitMatchesDominant ==
    [][(HitPermitted /\ current_phase[arg'] = 8) =>
          LET card == selected_cards'[1]
              target == arg'
          IN /\ card_type(card) = "wild" => ret' = "True"
             /\ card_type(card) = "number" =>
                   /\ ret' = "True" => color(card) \in TopColors(target)
                   /\ TopColors(target) = {color(card)} => ret' = "True"
                   /\ ret' = "True" =>
                         \A i \in 1..Len(completed_phase_cards[target]) :
                             LET c == completed_phase_cards[target][i]
                             IN (i > 7 /\ card_type(c) = "number") => color(c) = color(card)]_vars

C25_Witness ==
    /\ fn = "hit_on_phase"
    /\ ret = "True"
    /\ arg = 1
    /\ current_phase[1] = 8
    /\ card_type(selected_cards[1]) = "number"
    /\ color(selected_cards[1]) = "blue"
    /\ LaidColorCount(1, "blue") = 3
    /\ LaidColorCount(1, "green") = 2

\* C26: a Skip is rejected on a target in any phase 1..10; on a target in a
\* phase of a set and a run (2, 3) every Wild and every Number card is accepted.
C26_SkipRejectedSetRunPermissive ==
    [][HitCalled =>
          LET card == selected_cards'[1]
          IN /\ card_type(card) = "skip" => ret' = "False"
             /\ (HitPermitted /\ current_phase[arg'] \in {2, 3}
                     /\ card_type(card) \in {"wild", "number"}) => ret' = "True"]_vars

C26_Witness ==
    /\ fn = "hit_on_phase"
    /\ ret = "True"
    /\ arg = 1
    /\ current_phase[1] = 3
    /\ card_type(selected_cards[1]) = "number"
    /\ rank(selected_cards[1]) = 12
    /\ \E i \in 1..Len(hand[0]) : card_type(hand[0][i]) = "skip"

\* C28: when a hit returns False the hand of the hitting player and the laid
\* cards of every player are what they were before the call.
C28_FailedHitChangesNothing ==
    [][(HitCalled /\ ret' = "False") =>
          /\ hand' = hand
          /\ completed_phase_cards' = completed_phase_cards]_vars

C28_Witness ==
    /\ fn = "hit_on_phase"
    /\ ret = "False"
    /\ completed_phase_this_round[0]
    /\ completed_phase_this_round[1]
    /\ selected_cards = <<HitNotHeld>>
    /\ arg = 1

IsPrefix(a, b) == Len(a) <= Len(b) /\ SubSeq(b, 1, Len(a)) = a

\* C27: a successful hit takes exactly one instance of the card out of the hand
\* of the player who hits and appends it to the laid cards of the target; as
\* long as the round lasts the laid cards of a player only grow at their end.
C27_HitMovesOneCard ==
    [][/\ (pc = "hit" /\ fn' = "hit_on_phase" /\ ret' = "True") =>
             \E t \in Players, c \in Range(hand[player]) :
                /\ completed_phase_cards' =
                       [completed_phase_cards EXCEPT ![t] = Append(@, c)]
                /\ Len(hand'[player]) = Len(hand[player]) - 1
                /\ \A d \in Range(hand[player]) :
                      Count(hand'[player], d) =
                          Count(hand[player], d) - (IF d = c THEN 1 ELSE 0)
                /\ \A q \in Players \ {player} : hand'[q] = hand[q]
       /\ round_number' = round_number =>
             \A p \in Players :
                IsPrefix(completed_phase_cards[p], completed_phase_cards'[p])]_vars

C27_Witness ==
    /\ pc = "hit"
    /\ fn = "hit_on_phase"
    /\ ret = "True"
    /\ current_player_index = 1
    /\ completed_phase_this_round[1]
    /\ Len(completed_phase_cards[0]) > 6
    /\ Len(hand[1]) = 4

(***************************************************************************)
(* Claims about discard_card (checked under SpecDiscardCall)               *)
(***************************************************************************)
DiscardCalled == pc = "call" /\ fn' = "discard_card"

\* C29: discard_card returns False and changes neither the hand nor the discard
\* pile when the card is not in the hand; otherwise it returns True, removes
\* exactly one instance of the card from the hand (cards of the same rank and
\* colour stay) and makes the card the top of the discard pile.
C29_DiscardCardContract ==
    [][DiscardCalled =>
          LET card == selected_cards'[1]
          IN IF card \notin Range(hand[player])
             THEN ret' = "False" /\ hand' = hand /\ discard_pile' = discard_pile
             ELSE /\ ret' = "True"
                  /\ discard_pile' = Append(discard_pile, card)
                  /\ Len(hand'[player]) = Len(hand[player]) - 1
                  /\ \A d \in Range(hand[player]) :
                        Count(hand'[player], d) =
                            Count(hand[player], d) - (IF d = card THEN 1 ELSE 0)
                  /\ \A q \in Players \ {player} : hand'[q] = hand[q]]_vars

C29_Witness ==
    /\ fn = "discard_card"
    /\ ret = "True"
    /\ selected_cards = <<NumberCard(5, "red", 1)>>
    /\ discard_pile[Len(discard_pile)] = NumberCard(5, "red", 1)
    /\ hand[0] = <<NumberCard(5, "red", 2), NumberCard(8, "blue", 1)>>

(***************************************************************************)
(* Claims about reshuffle_if_needed (checked under SpecReshuffle)          *)
(***************************************************************************)
\* C30: called with an empty deck and a discard pile of more than one card,
\* reshuffle_if_needed leaves in the discard pile its former top card alone and
\* in the deck exactly the other cards of the pile, in some order; called with
\* a deck that holds a card, or a pile of at most one card, it changes nothing.
C30_ReshuffleMovesPileBelowTop ==
    [][(pc = "call" /\ fn' = "reshuffle_if_needed") =>
          IF deck = <<>> /\ Len(discard_pile) > 1
          THEN /\ discard_pile' = <<discard_pile[Len(discard_pile)]>>
               /\ Len(deck') = Len(discard_pile) - 1
               /\ SameCards(deck', SubSeq(discard_pile, 1, Len(discard_pile) - 1))
          ELSE deck' = deck /\ discard_pile' = discard_pile]_vars

C30_Witness ==
    /\ fn = "reshuffle_if_needed"
    /\ discard_pile = <<WildCard(4)>>
    /\ deck = <<NumberCard(1, "red", 1), SkipCard(3)>>


(***************************************************************************)
(* Claims about the cards of a round (checked under Spec, SpecDeck,        *)
(* SpecRound and SpecAttempt)                                              *)
(***************************************************************************)
PileTotal == Len(deck) + Len(discard_pile)

DrawStep == pc = "draw" /\ fn' = "player_draw_card"

DiscardStep == pc = "discard" /\ fn' = "discard_card"

\* C31 (as stated): deck.cards_remaining() + discard_pile.size() has the same
\* value after any sequence of draw and discard operations as before it, a
\* sequence of one draw or of one discard included.
C31_PileTotalConserved ==
    [][DrawStep \/ DiscardStep => PileTotal' = PileTotal]_vars

\* C31: a draw that returns a card lowers deck.cards_remaining() +
\* discard_pile.size() by exactly one (the card is in the hand), a draw that
\* returns nothing leaves it, and a discard raises it by exactly one; so the
\* total is the same after a turn made of one draw that returned a card and one
\* discard as before it, and at the start of every turn of a round whose draws
\* all returned a card it is what the deal left, 108 - 10 * players.
C31_PileTotalOverATurn ==
    /\ [][DrawStep => PileTotal' = PileTotal - (IF ret' = "Card" THEN 1 ELSE 0)]_vars
    /\ [][DiscardStep => PileTotal' = PileTotal + 1]_vars
    /\ [](pc = "draw" => PileTotal = Len(_create_deck) - HandSize * nplayers)

\* a second turn of the round is about to start: a draw and a discard have been made
C31_Witness ==
    /\ pc = "draw"
    /\ turns = 1
    /\ fn = "discard_card"
    /\ ret = "True"
    /\ Len(discard_pile) + Len(deck) = Len(_create_deck) - HandSize * nplayers


OfKind(cards, kind, col) ==
    {i \in 1..Len(cards) : card_type(cards[i]) = kind /\ color(cards[i]) = col}

\* C32: a freshly constructed Deck holds exactly 108 cards: for each of the 4
\* colors two Number cards of each rank 1..12, two Wilds and one Skip; draw_card
\* on a deck that holds cards removes exactly one card, the one it returns, and
\* on an empty deck it returns nothing and leaves the deck empty.
C32_FreshDeckAndDraw ==
    /\ [](fn = "Deck" =>
            /\ Len(deck) = 108
            /\ Cardinality(Range(deck)) = 108
            /\ Len(Colors) = 4
            /\ \A col \in Range(Colors) :
                  /\ \A r \in 1..12 :
                        Cardinality({i \in OfKind(deck, "number", col) :
                                        rank(deck[i]) = r}) = 2
                  /\ Cardinality(OfKind(deck, "number", col)) = 24
                  /\ Cardinality(OfKind(deck, "wild", col)) = 2
                  /\ Cardinality(OfKind(deck, "skip", col)) = 1)
    /\ [][fn' = "draw_card" =>
            IF deck = <<>>
            THEN ret' = "None" /\ deck' = <<>>
            ELSE /\ ret' = "Card"
                 /\ Len(deck') = Len(deck) - 1
                 /\ deck = deck' \o selected_cards']_vars

\* every card of a fresh deck has been drawn and one more draw has been made
C32_Witness ==
    /\ pc = "deck"
    /\ fn = "draw_card"
    /\ deck = <<>>
    /\ ret = "None"


RECURSIVE SumCards(_, _)
\* the lists of players 0..n-1 one after the other
SumCards(f, n) == IF n = 0 THEN <<>> ELSE SumCards(f, n - 1) \o f[n - 1]

\* every card of the game in one list: deck, discard pile, hands, laid cards
AllCards(dk, pile, hands, laid) ==
    LET Flat(f) == SumCards(f, nplayers)
    IN dk \o pile \o Flat(hands) \o Flat(laid)

\* C33: start_new_round adds exactly 1 to round_number, replaces the deck and
\* the discard pile by a fresh deal (one card on the pile, the rest of the 108
\* in the deck and the hands), gives every player a hand of exactly 10 cards,
\* completed_phase_this_round = false and no completed_phase_cards, and leaves
\* every player's current_phase and score as they were.
C33_StartNewRoundFrame ==
    [][pc = "next_round" /\ fn' = "start_new_round" =>
          /\ round_number' = round_number + 1
          /\ \A p \in Players :
                /\ Len(hand'[p]) = 10
                /\ completed_phase_this_round'[p] = FALSE
                /\ completed_phase_cards'[p] = <<>>
          /\ Len(discard_pile') = 1
          /\ Len(deck') = 108 - 10 * nplayers - 1
          /\ Range(AllCards(deck', discard_pile', hand', completed_phase_cards'))
                = Range(_create_deck)
          /\ current_phase' = current_phase
          /\ score' = score]_vars

\* a second round has been dealt to players who had laid phases and scored
C33_Witness ==
    /\ fn = "start_new_round"
    /\ round_number = 2
    /\ \E p \in Players : current_phase[p] = 10 /\ score[p] > 0
    /\ \E p \in Players : current_phase[p] = 2
    /\ \A p \in Players : Len(hand[p]) = 10


(***************************************************************************)
(* Claims about saved games (checked under SpecSave)                       *)
(***************************************************************************)
\* a card by value: its type, rank and color
ValueOf(c) == <<card_type(c), rank(c), color(c)>>

Values(cards) == [i \in 1..Len(cards) |-> ValueOf(cards[i])]

StatusByValue == [get_game_status EXCEPT !.discard_top = Values(@)]

EveryCard == AllCards(deck, discard_pile, hand, completed_phase_cards)

\* C34: the game read back from the file a game was saved to has the same
\* status snapshot (round, current player and index, each player's name, phase,
\* hand size, score and completed flag, the top of the discard pile by value,
\* deck size, game_over, winner name) and, by card value, the same hands, laid
\* cards, deck order and discard order; as many distinct card objects are in
\* play as before, so moves made on it come out as on the saved game: the same
\* player is out, the same points are counted, the same players have finished.
C34_SaveLoadRoundTrip ==
    [][fn' = "load_game_state" =>
          /\ StatusByValue' = StatusByValue
          /\ nplayers' = nplayers
          /\ names' = names
          /\ \A p \in Players :
                /\ Values(hand'[p]) = Values(hand[p])
                /\ Values(completed_phase_cards'[p]) = Values(completed_phase_cards[p])
                /\ current_phase'[p] = current_phase[p]
                /\ score'[p] = score[p]
                /\ completed_phase_this_round'[p] = completed_phase_this_round[p]
                /\ get_hand_points(hand'[p]) = get_hand_points(hand[p])
          /\ Values(deck') = Values(deck)
          /\ Values(discard_pile') = Values(discard_pile)
          /\ Cardinality(Range(EveryCard')) = Cardinality(Range(EveryCard))
          /\ round_number' = round_number
          /\ current_player_index' = current_player_index
          /\ game_over' = game_over
          /\ winner' = winner
          /\ FirstOut' = FirstOut
          /\ completed_all_phases' = completed_all_phases]_vars

\* a finished game with a winner, cards in hands and laid phases has been read back
C34_Witness ==
    /\ fn = "load_game_state"
    /\ game_over
    /\ winner # NoPlayer
    /\ \E p \in Players : hand[p] # <<>>
    /\ \E p \in Players : completed_phase_cards[p] # <<>>
    /\ score[winner] > 0


(***************************************************************************)
(* Claims about scores and phases over the rounds (checked under SpecRound)*)
(***************************************************************************)
\* C35: every player's score is a non-negative integer in every reachable
\* state, and no step of the game makes any player's score smaller.
C35_ScoreNeverDecreases ==
    /\ [](\A p \in Players : score[p] \in Nat)
    /\ [][\A p \in Players : score'[p] >= score[p]]_vars

\* end_round has added the points of the others' hands to a score that was not 0
C35_Witness ==
    /\ fn = "end_round"
    /\ round_winner # NoPlayer
    /\ OthersPoints(round_winner) > 0
    /\ score[round_winner] > 45 + OthersPoints(round_winner)

\* C36: every player's current_phase is within 1..11 in every reachable state,
\* no step makes it smaller, and the only step that changes it is end_round.
C36_PhaseInRangeAndMonotone ==
    /\ [](\A p \in Players : current_phase[p] \in 1..11)
    /\ [][\A p \in Players :
            /\ current_phase'[p] >= current_phase[p]
            /\ current_phase'[p] # current_phase[p] => fn' = "end_round"]_vars

\* a round has ended and the next has been dealt: two players are on phase 10
\* (reached from phase 9, or kept), a third has gone from phase 1 to phase 2
C36_Witness ==
    /\ fn = "start_new_round"
    /\ nplayers >= 3
    /\ current_phase[0] = 10
    /\ current_phase[1] = 10
    /\ current_phase[2] = 2

EndRoundStep == pc = "end_round" /\ fn' = "end_round"

\* C40: end_round changes no hand, no laid cards, neither the deck nor the
\* discard pile, not the turn index and not the round number; the only score it
\* changes is that of the round winner it returns, and the only current_phase
\* values it changes are those of players whose completed_phase_this_round is true.
C40_EndRoundFrame ==
    [][EndRoundStep =>
          /\ hand' = hand
          /\ completed_phase_cards' = completed_phase_cards
          /\ deck' = deck
          /\ discard_pile' = discard_pile
          /\ current_player_index' = current_player_index
          /\ round_number' = round_number
          /\ \A p \in Players : score'[p] # score[p] => p = round_winner'
          /\ \A p \in Players :
                current_phase'[p] # current_phase[p] => completed_phase_this_round[p]]_vars

\* end_round has scored the winner, advanced a second player who had laid a
\* phase and left on phase 1 a third who had not
C40_Witness ==
    /\ fn = "end_round"
    /\ pc = "check_game_end"
    /\ nplayers >= 3
    /\ round_winner # NoPlayer
    /\ score[round_winner] > 0
    /\ \E q \in Players :
          /\ q # round_winner
          /\ completed_phase_this_round[q]
          /\ current_phase[q] = 2
    /\ \E r \in Players :
          /\ ~completed_phase_this_round[r]
          /\ current_phase[r] = 1
          /\ hand[r] # <<>>


(***************************************************************************)
(* Claims about the order of the cards (checked under SpecHitCall)         *)
(***************************************************************************)
\* the rotations of a list and their reversals: lists of the same cards
Rearrangements(s) ==
    LET n == Len(s)
        Rotate(k) == [i \in 1..n |-> s[((i + k - 1) % n) + 1]]
        Reverse(q) == [i \in 1..n |-> q[n + 1 - i]]
    IN {Rotate(k) : k \in 0..(n - 1)} \cup {Reverse(Rotate(k)) : k \in 0..(n - 1)}

\* C37: the decision on a hit depends only on which cards the target has laid,
\* not on their order: with the laid cards rearranged, the check of the same
\* card against them gives the answer the call gave.
C37_HitDecisionIgnoresOrder ==
    [][HitPermitted =>
          LET card == selected_cards'[1]
              target == arg'
          IN \A laid \in Rearrangements(completed_phase_cards[target]) :
                _can_add_to_phase_cards(card, laid, current_phase[target])
                    = (ret' = "True")]_vars


(***************************************************************************)
(* Claims about the cards in play (checked under SpecAttempt)              *)
(***************************************************************************)
\* C38: within a round, in every reachable state, the cards in the deck, the
\* discard pile, all hands and all completed_phase_cards together number
\* exactly 108 and are the cards of the deck, each of them once.
C38_CardsConserved ==
    /\ Len(EveryCard) = 108
    /\ Range(EveryCard) = Range(_create_deck)

\* C39: no player's completed_phase_cards ever holds a Skip.
C39_NoSkipLaid ==
    \A p \in Players :
        \A i \in 1..Len(completed_phase_cards[p]) :
            card_type(completed_phase_cards[p][i]) # "skip"

====
